---- MODULE Spec2Model ----
(***************************************************************************)
(* Verification model of the split-image toolkit: the tiling geometry      *)
(* (utils/splitImage.ts), the flood-fill background removal                *)
(* (utils/imageProcess.ts, utils/spriteSheet.ts) and the Gemini watermark  *)
(* engine (utils/geminiWatermark.ts).                                      *)
(*                                                                         *)
(* Numbers.  JavaScript numbers that may be fractional are represented     *)
(* exactly as integers over a fixed denominator: a pixel coordinate of the *)
(* tiling engine is counted in 1/100 pixel (position is a percentage), an  *)
(* alpha-map value is k/255.  IEEE rounding is modelled where it decides a *)
(* result (the Float32 alpha map of the watermark engine) and not where it *)
(* only moves a tie of measure zero (isMagenta, the tiling breaks).        *)
(***************************************************************************)
EXTENDS Integers, Sequences, FiniteSets, TLC

VARIABLES
    \* ---- tiling (pages/index.vue, components/ImageCanvas.vue, utils/splitImage.ts)
    imageWidth,      \* image.naturalWidth, in pixels
    imageHeight,     \* image.naturalHeight, in pixels
    lines,           \* the SplitLine list: sequence of [id, type, position]
    regions,         \* the SliceRegion list of the splitImage call just made, <<>> otherwise
    \* ---- background removal (utils/imageProcess.ts, utils/spriteSheet.ts)
    source,          \* the stored frame / loaded bitmap, never written
    imageData,       \* the working ImageData the removal functions mutate in place
    lastCall,        \* the arguments of the removal call just made, NoCall otherwise
    callCount,       \* number of removal calls made on imageData since it was cloned
    \* ---- reverse alpha blending of one channel (utils/geminiWatermark.ts)
    original,        \* the channel value before the watermark was blended in
    alphaK,          \* the alpha-map entry, as k of k/255
    watermarked,     \* the 8-bit channel value stored in the image
    blendPc,         \* "clean" | "blended" | "restored"
    \* ---- watermark engine singleton (utils/geminiWatermark.ts)
    engineInstance,  \* module-level singleton: Null or the engine created
    initialized,     \* GeminiWatermarkEngine.initialized
    watermarkImages, \* keys of GeminiWatermarkEngine.watermarkImages
    alphaMaps,       \* GeminiWatermarkEngine.alphaMaps (the cache): size -> map, <<>> if absent
    assets,          \* per asset size: [state: "idle" | "loading" | "loaded" | "failed", logo]
    initPc,          \* the one init() call: "none" | "awaiting" | "resolved" | "rejected"
    loadsStarted,    \* how many times init() started the asset loads
    callers,         \* per caller of getGeminiWatermarkEngine: its position
    wmBuffer,        \* per caller: the ImageData it hands to removeWatermark
    thrown,          \* per caller: the error it caught, or Null
    \* ---- export of the tiles (pages/index.vue, utils/splitImage.ts, utils/downloadZip.ts)
    blobs,           \* the Blob[] splitImage resolved with, <<>> otherwise
    exportError,     \* the error handleExport caught, or Null
    zipFiles,        \* the file names downloadAsZip stored, in order
    \* ---- watermark info (GeminiWatermarkEngine.getWatermarkInfo)
    infoWidth,       \* imageWidth argument
    infoHeight,      \* imageHeight argument
    watermarkInfo,   \* the value returned, NoInfo before the call
    \* ---- sprite-sheet page (pages/gif.vue, utils/spriteSheet.ts, utils/gifEncoder.ts)
    sheet,           \* the uploaded sprite sheet, drawn on the canvas
    gridRows,        \* rows
    gridCols,        \* cols
    outputWidth,     \* outputWidth
    outputHeight,    \* outputHeight
    processedFrames, \* processedFrames: ImageData[row][col], <<>> before slicing
    sliceError,      \* the exception processImage ended with, or Null
    croppedFrame,    \* downloadSingleFrame: [rowIdx, frameIdx, image got from cropFromCenter], NoCrop before
    previewFrames,   \* the buffers frameDataUrls encoded, [row][col], <<>> before
    gifFrames,       \* the buffers createGif handed to encode() for the row last generated
    pipeline,        \* per path ("preview", "gif"): the calls made on a frame, in order
    \* ---- white removal with eraser strokes (removeWhiteBackground, eraseWhiteInStrokes)
    erImage,         \* the ImageData the call works on
    erCall,          \* the call running: [fn, strokes, expansion], NoCall before
    erPc,            \* "idle" | "point" | "interp" | "flood" | "done"
    erVisited,       \* visited (removeWhiteBackground) or erased (eraseWhiteInStrokes)
    erQueue,         \* queue, as a sequence of <<x, y>>
    erHead,          \* head, counted in queue entries from 1
    erStroke,        \* index of the stroke the outer loop is at
    erPoint,         \* i, the index of the point the loop is at
    erS,             \* s of the interpolation loop
    erSteps,         \* steps of the interpolation loop
    \* ---- temp folder (composables/tempFolder.ts)
    tmpFiles,        \* files: sequence of [id, src], newest first
    tmpNextId,       \* the id generateId hands out next
    \* ---- image list (composables/image.ts)
    listItems,       \* items: sequence of [id, originalSrc, processedSrc]
    listIndex,       \* currentIndex
    listNextId,      \* the id generateId hands out next
    listOp,          \* the call just made: [op, id, known], NoListOp before
    \* ---- split-line editing (components/ImageCanvas.vue, pages/index.vue)
    pageVariant,     \* which of the two pages of pages/index.vue hosts the canvas
    splitLines,      \* lines: sequence of [id, type, position], position in percent
    selectedLineId,  \* id of the selected line, 0 for null
    draggingLineId,  \* id of the line being dragged, 0 for null
    creatingLine,    \* <<[type, position]>> while an edge drag goes on, <<>> for null
    lineNextId       \* the id generateId hands out next

tilingVars  == <<imageWidth, imageHeight, lines, regions, blobs, exportError, zipFiles>>
removalVars == <<source, imageData, lastCall, callCount>>
blendVars   == <<original, alphaK, watermarked, blendPc>>
engineVars  == <<engineInstance, initialized, watermarkImages, alphaMaps, assets,
                 initPc, loadsStarted, callers, wmBuffer, thrown>>
infoVars    == <<infoWidth, infoHeight, watermarkInfo>>
gifVars     == <<sheet, gridRows, gridCols, outputWidth, outputHeight, processedFrames,
                 sliceError, croppedFrame, previewFrames, gifFrames, pipeline>>
eraserVars  == <<erImage, erCall, erPc, erVisited, erQueue, erHead, erStroke, erPoint,
                 erS, erSteps>>
tempVars    == <<tmpFiles, tmpNextId>>
listVars    == <<listItems, listIndex, listNextId, listOp>>
lineVars    == <<pageVariant, splitLines, selectedLineId, draggingLineId, creatingLine,
                 lineNextId>>
extraVars   == <<eraserVars, tempVars, listVars, lineVars>>
pageVars    == <<infoVars, gifVars, extraVars>>
vars == <<tilingVars, removalVars, blendVars, engineVars, pageVars>>

Null == "null"

(***************************************************************************)
(* Generic helpers                                                         *)
(***************************************************************************)
Min(a, b) == IF a <= b THEN a ELSE b
Max(a, b) == IF a >= b THEN a ELSE b
Abs(a) == IF a < 0 THEN -a ELSE a

\* Math.floor(n / d) for d > 0 (TLA+ \div already rounds towards minus infinity).
FloorDiv(n, d) == n \div d

\* Math.round(n / d) for d > 0: the nearest integer, ties towards plus infinity.
RoundDiv(n, d) == (2 * n + d) \div (2 * d)

RECURSIVE SumSeq(_)
SumSeq(s) == IF s = <<>> THEN 0 ELSE Head(s) + SumSeq(Tail(s))

(***************************************************************************)
(* Idle values: a specification of one engine keeps the others here.       *)
(***************************************************************************)
NoCall == [fn |-> "none"]
EmptyImage == [width |-> 0, height |-> 0, data |-> <<>>]
NoInfo == [size |-> 0]
NoCrop == [rowIdx |-> 0, frameIdx |-> 0, image |-> EmptyImage]

TilingIdle ==
    /\ imageWidth = 0 /\ imageHeight = 0 /\ lines = <<>> /\ regions = <<>>
    /\ blobs = <<>> /\ exportError = Null /\ zipFiles = <<>>
RemovalIdle ==
    /\ source = EmptyImage /\ imageData = EmptyImage
    /\ lastCall = NoCall /\ callCount = 0
BlendIdle ==
    /\ original = 0 /\ alphaK = 0 /\ watermarked = 0 /\ blendPc = "clean"
EngineIdle ==
    /\ engineInstance = Null /\ initialized = FALSE
    /\ watermarkImages = {} /\ alphaMaps = <<>> /\ assets = <<>>
    /\ initPc = "none" /\ loadsStarted = 0 /\ callers = <<>>
    /\ wmBuffer = <<>> /\ thrown = <<>>
InfoIdle ==
    /\ infoWidth = 0 /\ infoHeight = 0 /\ watermarkInfo = NoInfo
GifIdle ==
    /\ sheet = EmptyImage /\ gridRows = 0 /\ gridCols = 0
    /\ outputWidth = 0 /\ outputHeight = 0
    /\ processedFrames = <<>> /\ sliceError = Null /\ croppedFrame = NoCrop
    /\ previewFrames = <<>> /\ gifFrames = <<>> /\ pipeline = <<>>
NoSteps == [kind |-> "finite", n |-> 0]
EraserIdle ==
    /\ erImage = EmptyImage /\ erCall = NoCall /\ erPc = "idle"
    /\ erVisited = {} /\ erQueue = <<>> /\ erHead = 1
    /\ erStroke = 0 /\ erPoint = 0 /\ erS = 0 /\ erSteps = NoSteps
TempIdle == tmpFiles = <<>> /\ tmpNextId = 0
NoListOp == [op |-> "none", id |-> 0, known |-> FALSE]
ListIdle == listItems = <<>> /\ listIndex = 0 /\ listNextId = 0 /\ listOp = NoListOp
LineIdle ==
    /\ pageVariant = "bound" /\ splitLines = <<>> /\ selectedLineId = 0
    /\ draggingLineId = 0 /\ creatingLine = <<>> /\ lineNextId = 1
ExtraIdle == EraserIdle /\ TempIdle /\ ListIdle /\ LineIdle
PageIdle == InfoIdle /\ GifIdle /\ ExtraIdle

(***************************************************************************)
(* 1. Tiling: the split-line list and calculateRegions                     *)
(***************************************************************************)
\* Bounds of the tiling model.
MaxImageSide == 3
MaxLines == 3

\* Percent positions the pointer can report (getMousePosition is not clamped:
\* a drag may leave the canvas on either side).
PointerPercents == {-10, 0, 30, 50, 100, 120}

\* clamp(value, min, max) of utils/common.
clamp(value, lo, hi) == Min(Max(value, lo), hi)

\* Array.prototype.sort((a, b) => a - b): ascending, by insertion.
RECURSIVE InsertAsc(_, _)
InsertAsc(s, v) ==
    IF s = <<>> THEN <<v>>
    ELSE IF v < Head(s) THEN <<v>> \o s
    ELSE <<Head(s)>> \o InsertAsc(Tail(s), v)

\* A sort that leaves the list in input order.
MutUnsorted(s) == s

RECURSIVE SortAsc(_)
SortAsc(s) == IF s = <<>> THEN <<>> ELSE InsertAsc(SortAsc(Tail(s)), Head(s))

\* lines.filter(l => l.type === t).map(l => (l.position / 100) * size), in list
\* order; the result is in 1/100 pixel, so it is position * size exactly.
RECURSIVE BreaksOf(_, _, _)
BreaksOf(ls, t, size) ==
    IF ls = <<>> THEN <<>>
    ELSE IF Head(ls).type = t
         THEN <<Head(ls).position * size>> \o BreaksOf(Tail(ls), t, size)
         ELSE BreaksOf(Tail(ls), t, size)

\* The nested loop of calculateRegions: rows outer, columns inner.
RegionAt(xBreaks, yBreaks, i, j) ==
    [x      |-> xBreaks[j],
     y      |-> yBreaks[i],
     width  |-> xBreaks[j + 1] - xBreaks[j],
     height |-> yBreaks[i + 1] - yBreaks[i]]

\* The two loops exchanged: columns outer, rows inner.
MutColumnMajor(w, h, ls) ==
    LET yBreaks == <<0>> \o SortAsc(BreaksOf(ls, "h", h)) \o <<100 * h>>
        xBreaks == <<0>> \o SortAsc(BreaksOf(ls, "v", w)) \o <<100 * w>>
        rows == Len(yBreaks) - 1
        cols == Len(xBreaks) - 1
    IN  [n \in 1..(rows * cols) |->
            RegionAt(xBreaks, yBreaks, ((n - 1) % rows) + 1, ((n - 1) \div rows) + 1)]

calculateRegions(w, h, ls) ==
    LET hLines == SortAsc(BreaksOf(ls, "h", h))
        vLines == SortAsc(BreaksOf(ls, "v", w))
        yBreaks == <<0>> \o hLines \o <<100 * h>>
        xBreaks == <<0>> \o vLines \o <<100 * w>>
        rows == Len(yBreaks) - 1
        cols == Len(xBreaks) - 1
    IN  [n \in 1..(rows * cols) |->
            RegionAt(xBreaks, yBreaks, ((n - 1) \div cols) + 1, ((n - 1) % cols) + 1)]

\* handleMouseDown on an edge, handleMouseMove, handleMouseUp: a line is created
\* at the release position when it lies strictly between 1 and 99.
CreateLine(t, pos) ==
    /\ Len(lines) < MaxLines
    /\ pos > 1 /\ pos < 99
    /\ lines' = Append(lines, [id |-> Len(lines) + 1, type |-> t, position |-> pos])
    /\ regions' = <<>> /\ blobs' = <<>> /\ exportError' = Null /\ zipFiles' = <<>>
    /\ UNCHANGED <<imageWidth, imageHeight, removalVars, blendVars, engineVars, pageVars>>

\* handleMouseMove while draggingLineId is set: the line follows the pointer,
\* clamped to [0, 100].
DragLine(i, pos) ==
    /\ i \in 1..Len(lines)
    /\ lines' = [lines EXCEPT ![i].position = clamp(pos, 0, 100)]
    /\ regions' = <<>> /\ blobs' = <<>> /\ exportError' = Null /\ zipFiles' = <<>>
    /\ UNCHANGED <<imageWidth, imageHeight, removalVars, blendVars, engineVars, pageVars>>

\* canvas.width = v for a non-negative number v given in 1/100 pixel: the
\* conversion to unsigned long drops the fraction.
CanvasSide(v) == v \div 100

\* canvas.toBlob hands null to its callback when the canvas has no pixels.
ToBlobIsNull(region) == CanvasSide(region.width) = 0 \/ CanvasSide(region.height) = 0

\* splitImage: one canvas and one blob per region, in region order; the promise
\* rejects at the first region whose canvas gives no blob.  A blob is described
\* by the source corner it was drawn from and the size of its canvas.
splitImage(w, h, ls) ==
    LET rs == calculateRegions(w, h, ls)
    IN  IF \E n \in DOMAIN rs : ToBlobIsNull(rs[n])
        THEN [error |-> "Failed to create blob", blobs |-> <<>>]
        ELSE [error |-> Null,
              blobs |-> [n \in DOMAIN rs |->
                            [x      |-> rs[n].x,
                             y      |-> rs[n].y,
                             width  |-> CanvasSide(rs[n].width),
                             height |-> CanvasSide(rs[n].height)]]]

ExportFormats == {"png", "jpeg", "webp"}

getFileExtension(format) ==
    CASE format = "png"  -> "png"
      [] format = "jpeg" -> "jpg"
      [] format = "webp" -> "webp"

\* String(n).padStart(2, '0')
PadStart2(n) ==
    LET str == ToString(n)
    IN  IF Len(str) < 2 THEN "0" \o str ELSE str

\* The grid width taken from the h-lines instead of the v-lines.
MutColsFromRows(ls) ==
    Cardinality({i \in DOMAIN ls : ls[i].type = "h"}) + 1

\* vLineCount + 1 of downloadAsZip.
ZipCols(ls) ==
    Cardinality({i \in DOMAIN ls : ls[i].type = "v"}) + 1

\* downloadAsZip without custom names: the file names given to zip.file, in
\* blob order (index is 0-based in the code, n = index + 1 here).
downloadAsZip(bs, baseName, ls, format) ==
    LET ext == getFileExtension(format)
        cols == ZipCols(ls)
    IN  [n \in DOMAIN bs |->
            LET row == FloorDiv(n - 1, cols) + 1
                col == ((n - 1) % cols) + 1
            IN  baseName \o "_r" \o PadStart2(row) \o "_c" \o PadStart2(col) \o "." \o ext]

\* handleExport up to the end of `await splitImage(...)`: the regions and blobs
\* of the current line list, or the rejection caught by the handler.
SplitImage ==
    LET res == splitImage(imageWidth, imageHeight, lines)
    IN  /\ regions' = calculateRegions(imageWidth, imageHeight, lines)
        /\ blobs' = res.blobs
        /\ exportError' = res.error
        /\ zipFiles' = <<>>
        /\ UNCHANGED <<imageWidth, imageHeight, lines,
                       removalVars, blendVars, engineVars, pageVars>>

\* handleExport after splitImage resolved: downloadAsZip(blobs, 'image', lines, format).
DownloadAsZip(format) ==
    /\ blobs # <<>> /\ zipFiles = <<>>
    /\ zipFiles' = downloadAsZip(blobs, "image", lines, format)
    /\ UNCHANGED <<imageWidth, imageHeight, lines, regions, blobs, exportError,
                   removalVars, blendVars, engineVars, pageVars>>

\* Natural sizes of the loaded image.
ImageSides == (1..MaxImageSide) \cup {10}

TilingInit ==
    /\ imageWidth \in ImageSides
    /\ imageHeight \in ImageSides
    /\ lines = <<>>
    /\ regions = <<>>
    /\ blobs = <<>> /\ exportError = Null /\ zipFiles = <<>>
    /\ RemovalIdle /\ BlendIdle /\ EngineIdle /\ PageIdle

TilingNext ==
    \/ \E t \in {"h", "v"}, pos \in PointerPercents : CreateLine(t, pos)
    \/ \E i \in 1..MaxLines, pos \in PointerPercents : DragLine(i, pos)
    \/ SplitImage
    \/ \E format \in ExportFormats : DownloadAsZip(format)

SpecTiling == TilingInit /\ [][TilingNext]_vars

(***************************************************************************)
(* Claims about the tiling                                                 *)
(***************************************************************************)
TypeCount(t) == Cardinality({i \in DOMAIN lines : lines[i].type = t})

\* The point (px, py), in 1/100 pixel, lies in the half-open rectangle r.
Contains(r, px, py) ==
    /\ r.x <= px /\ px < r.x + r.width
    /\ r.y <= py /\ py < r.y + r.height

XEdges == {0, 100 * imageWidth}
          \cup {regions[n].x : n \in DOMAIN regions}
          \cup {regions[n].x + regions[n].width : n \in DOMAIN regions}
YEdges == {0, 100 * imageHeight}
          \cup {regions[n].y : n \in DOMAIN regions}
          \cup {regions[n].y + regions[n].height : n \in DOMAIN regions}

CoverCount(px, py) ==
    Cardinality({n \in DOMAIN regions : Contains(regions[n], px, py)})

InImage(px, py) ==
    /\ 0 <= px /\ px < 100 * imageWidth
    /\ 0 <= py /\ py < 100 * imageHeight

\* C1: after calculateRegions, for lines with positions in [0,100] in any order
\* and with duplicates, every region has x, y, width, height >= 0, every point
\* of [0,width) x [0,height) lies in exactly one region, no point outside lies
\* in any, and the region areas sum to width*height.  Membership of a point in
\* the half-open regions and in the image only changes at an edge coordinate,
\* so the points whose coordinates are edge coordinates decide it everywhere.
C1_TilingComplete ==
    regions # <<>> =>
        /\ \A n \in DOMAIN regions :
              /\ regions[n].x >= 0 /\ regions[n].y >= 0
              /\ regions[n].width >= 0 /\ regions[n].height >= 0
        /\ \A px \in XEdges, py \in YEdges :
              CoverCount(px, py) = IF InImage(px, py) THEN 1 ELSE 0
        /\ SumSeq([n \in DOMAIN regions |-> regions[n].width * regions[n].height])
              = (100 * imageWidth) * (100 * imageHeight)

\* Regions were computed from lines given out of order, with a coincident pair
\* and a line on the image border.
C1_Witness ==
    /\ Len(regions) >= 6
    /\ \E i, j \in DOMAIN lines :
          i < j /\ lines[i].type = lines[j].type /\ lines[i].position > lines[j].position
    /\ \E n \in DOMAIN regions : regions[n].width = 0 \/ regions[n].height = 0

\* The k-th smallest position (k = 1..count) among the lines of type t, defined
\* by counting and not by sorting.
KthPosition(t, k) ==
    CHOOSE p \in {lines[i].position : i \in DOMAIN lines} :
        /\ \E i \in DOMAIN lines : lines[i].type = t /\ lines[i].position = p
        /\ Cardinality({i \in DOMAIN lines : lines[i].type = t /\ lines[i].position < p}) < k
        /\ Cardinality({i \in DOMAIN lines : lines[i].type = t /\ lines[i].position <= p}) >= k

\* Break number j (0 = the image's near edge, count + 1 = its far edge), in 1/100 pixel.
BreakAt(t, size, j) ==
    IF j = 0 THEN 0
    ELSE IF j = TypeCount(t) + 1 THEN 100 * size
    ELSE KthPosition(t, j) * size

\* C2: calculateRegions returns (h+1)*(v+1) regions in row-major order: region
\* number i (from 0) spans row interval floor(i/(v+1)) and column interval
\* i mod (v+1) of the ascending break positions, whatever the order of the
\* lines in the list.
C2_RowMajor ==
    regions # <<>> =>
        LET cols == TypeCount("v") + 1
            rows == TypeCount("h") + 1
        IN  /\ Len(regions) = rows * cols
            /\ \A i \in 0..(rows * cols - 1) :
                  LET r == i \div cols
                      c == i % cols
                      reg == regions[i + 1]
                  IN  /\ reg.x = BreakAt("v", imageWidth, c)
                      /\ reg.x + reg.width = BreakAt("v", imageWidth, c + 1)
                      /\ reg.y = BreakAt("h", imageHeight, r)
                      /\ reg.y + reg.height = BreakAt("h", imageHeight, r + 1)

\* One h-line and one v-line on a non-square image: four regions, top-left,
\* top-right, bottom-left, bottom-right.
C2_Witness ==
    /\ TypeCount("h") = 1 /\ TypeCount("v") = 1 /\ Len(lines) = 2
    /\ imageWidth # imageHeight
    /\ Len(regions) = 4
    /\ regions[1].x = 0 /\ regions[1].y = 0
    /\ regions[2].x > 0 /\ regions[2].y = 0
    /\ regions[3].x = 0 /\ regions[3].y > 0
    /\ regions[4].x > 0 /\ regions[4].y > 0

\* The decimal digits of n (0..99), tens first.
TwoDigits(n) == ToString(n \div 10) \o ToString(n % 10)

Extensions == {"png", "jpg", "webp"}

\* C18: when downloadAsZip receives the blobs of splitImage for the same line
\* list, without custom names, the blob of the region in row interval r and
\* column interval c (from 0) is stored as {base}_r{r+1}_c{c+1}.{ext}, the
\* numbers written with two digits, and no two blobs get the same file name.
C18_ZipNaming ==
    zipFiles # <<>> =>
        LET cols == TypeCount("v") + 1
            rows == TypeCount("h") + 1
        IN  /\ Len(zipFiles) = Len(blobs)
            /\ Len(blobs) = rows * cols
            /\ \E ext \in Extensions :
                  \A r \in 0..(rows - 1), c \in 0..(cols - 1) :
                      \E n \in DOMAIN blobs :
                          /\ blobs[n].x = BreakAt("v", imageWidth, c)
                          /\ blobs[n].y = BreakAt("h", imageHeight, r)
                          /\ zipFiles[n] = "image_r" \o TwoDigits(r + 1)
                                               \o "_c" \o TwoDigits(c + 1)
                                               \o "." \o ext
            /\ \A m, n \in DOMAIN zipFiles : m # n => zipFiles[m] # zipFiles[n]

\* A 2 x 3 grid from lines given out of order was exported as JPEG: six files,
\* the last one the bottom-right tile.
C18_Witness ==
    /\ TypeCount("h") = 1 /\ TypeCount("v") = 2
    /\ lines[1].type = "v" /\ lines[3].type = "v"
    /\ lines[1].position > lines[3].position
    /\ Len(zipFiles) = 6
    /\ zipFiles[1] = "image_r01_c01.jpg"
    /\ zipFiles[4] = "image_r02_c01.jpg"
    /\ zipFiles[6] = "image_r02_c03.jpg"

\* Two lines of one orientation share a position, or a line sits at 0 or 100.
DegenerateLines ==
    \/ \E i, j \in DOMAIN lines :
          i # j /\ lines[i].type = lines[j].type /\ lines[i].position = lines[j].position
    \/ \E i \in DOMAIN lines : lines[i].position \in {0, 100}

ZeroArea(region) == region.width = 0 \/ region.height = 0

\* C19 as the specification states it: when two split lines of the same
\* orientation share a position, or a line sits at 0 or 100, calculateRegions
\* yields zero-area regions and splitImage still completes without throwing or
\* rejecting, returning the blobs of all other regions.
C19_AsStated ==
    (regions # <<>> /\ DegenerateLines) =>
        /\ \E n \in DOMAIN regions : ZeroArea(regions[n])
        /\ exportError = Null
        /\ \A n \in DOMAIN regions :
              ~ZeroArea(regions[n]) =>
                  \E m \in DOMAIN blobs :
                      blobs[m].x = regions[n].x /\ blobs[m].y = regions[n].y

\* C27 as the specification states it: the tile canvases created by
\* splitImage have whole-pixel origins and sizes such that, in every row of
\* tiles, the canvas widths sum to the image width and, in every column, the
\* canvas heights sum to the image height, so each source pixel appears in
\* exactly one exported tile.
C27_AsStated ==
    blobs # <<>> =>
        LET cols == TypeCount("v") + 1
            rows == TypeCount("h") + 1
            tile(r, c) == blobs[r * cols + c + 1]
        IN  /\ \A n \in DOMAIN blobs : blobs[n].x % 100 = 0 /\ blobs[n].y % 100 = 0
            /\ \A r \in 0..(rows - 1) :
                  SumSeq([k \in 1..cols |-> tile(r, k - 1).width]) = imageWidth
            /\ \A c \in 0..(cols - 1) :
                  SumSeq([k \in 1..rows |-> tile(k - 1, c).height]) = imageHeight

(***************************************************************************)
(* 2. Background removal: pixel buffers                                    *)
(*                                                                         *)
(* An ImageData is [width, height, data]; data maps the pixel index        *)
(* y*width + x (from 0) to its four bytes [r, g, b, a].                    *)
(***************************************************************************)
Pixels(img) == 0..(img.width * img.height - 1)

\* The alpha channel and the set of fully transparent pixels.
AlphaOf(img) == [i \in Pixels(img) |-> img.data[i].a]
Transparent(img) == {i \in Pixels(img) : img.data[i].a = 0}

\* data[base + 3] = 0 for the pixels of set s.
ClearAlpha(data, s) ==
    [i \in DOMAIN data |-> IF i \in s THEN [data[i] EXCEPT !.a = 0] ELSE data[i]]

\* data[base] = data[base + 1] = data[base + 2] = 0 for the pixels of set s.
ClearRGB(data, s) ==
    [i \in DOMAIN data |->
        IF i \in s THEN [data[i] EXCEPT !.r = 0, !.g = 0, !.b = 0] ELSE data[i]]

\* dx / dy of the 4-neighbourhood, in the order of the source.
dx4 == <<1, -1, 0, 0>>
dy4 == <<0, 0, 1, -1>>
\* dx8 / dy8 of the 8-neighbourhood, in the order of the source.
dx8 == <<1, 1, 1, 0, 0, -1, -1, -1>>
dy8 == <<1, 0, -1, 1, -1, 1, 0, -1>>

InGrid(w, h, x, y) == x >= 0 /\ x < w /\ y >= 0 /\ y < h

\* The pixels of set s seen from pixel i through the offsets dx, dy.
HasNeighbourIn(w, h, i, s, dx, dy) ==
    \E j \in DOMAIN dx :
        LET nx == (i % w) + dx[j]
            ny == (i \div w) + dy[j]
        IN  InGrid(w, h, nx, ny) /\ (ny * w + nx) \in s

\* The border scan shared by both removal functions: for each x the top then
\* the bottom pixel, then for each inner y the left then the right pixel.
EdgeScan(w, h) ==
    [k \in 1..(2 * w) |->
        IF k % 2 = 1 THEN <<(k - 1) \div 2, 0>> ELSE <<(k - 2) \div 2, h - 1>>]
    \o
    [k \in 1..(2 * Max(h - 2, 0)) |->
        IF k % 2 = 1 THEN <<0, 1 + (k - 1) \div 2>> ELSE <<w - 1, 1 + (k - 2) \div 2>>]

\* if (pred(x, y) && !visited[idx]) { queue.push(x, y); visited[idx] = 1 } for
\* each candidate in order; st is [queue, visited], match the pixels satisfying
\* the colour predicate.
RECURSIVE PushSeeds(_, _, _, _)
PushSeeds(cands, w, match, st) ==
    IF cands = <<>> THEN st
    ELSE LET c == Head(cands)
             idx == c[2] * w + c[1]
         IN  PushSeeds(Tail(cands), w, match,
                 IF idx \in match /\ idx \notin st.visited
                 THEN [queue |-> Append(st.queue, c), visited |-> st.visited \cup {idx}]
                 ELSE st)

\* The four neighbours of (x, y) that lie in the grid, in source order.
NeighbourCands(w, h, x, y) ==
    SelectSeq([j \in 1..4 |-> <<x + dx4[j], y + dy4[j]>>],
              LAMBDA c : InGrid(w, h, c[1], c[2]))

(***************************************************************************)
(* removeWhiteBackground (utils/imageProcess.ts)                           *)
(***************************************************************************)
NoSelection == [x |-> -1, y |-> -1, w |-> 0, h |-> 0]

isWhite(p, threshold) == p.r >= threshold /\ p.g >= threshold /\ p.b >= threshold

\* Step 2: the pixels of the selection box, scanned row by row.
SelectionScan(w, h, sel) ==
    LET startX == Max(0, FloorDiv(sel.x * w, 100))
        startY == Max(0, FloorDiv(sel.y * h, 100))
        endX == Min(w, FloorDiv((sel.x + sel.w) * w, 100))
        endY == Min(h, FloorDiv((sel.y + sel.h) * h, 100))
        bw == Max(endX - startX, 0)
        bh == Max(endY - startY, 0)
    IN  [k \in 1..(bw * bh) |-> <<startX + ((k - 1) % bw), startY + ((k - 1) \div bw)>>]

\* Step 3: the queue loop.  Each pixel pulled from the queue gets alpha 0 and
\* pushes its unvisited white neighbours.
RECURSIVE FloodWhite(_, _, _, _, _, _)
FloodWhite(w, h, match, data, head, st) ==
    IF head > Len(st.queue) THEN [data |-> data, visited |-> st.visited]
    ELSE LET c == st.queue[head]
         IN  FloodWhite(w, h, match,
                        [data EXCEPT ![c[2] * w + c[1]].a = 0],
                        head + 1,
                        PushSeeds(NeighbourCands(w, h, c[1], c[2]), w, match, st))

\* Expansion that takes the transparent pixels, not the visited ones, as mask.
RECURSIVE MutExpandWhiteFromAlpha(_, _, _, _, _)
MutExpandWhiteFromAlpha(w, h, data, mask, rounds) ==
    IF rounds <= 0 THEN data
    ELSE LET clear == {i \in DOMAIN data : data[i].a = 0}
             ring == {i \in DOMAIN data :
                        i \notin clear /\ HasNeighbourIn(w, h, i, clear, dx4, dy4)}
         IN  MutExpandWhiteFromAlpha(w, h, ClearAlpha(data, ring), mask, rounds - 1)

\* Expansion that clears the alpha of the last ring only.
RECURSIVE MutExpandWhiteLastRing(_, _, _, _, _)
MutExpandWhiteLastRing(w, h, data, mask, rounds) ==
    IF rounds <= 0 THEN data
    ELSE LET ring == {i \in DOMAIN data :
                        i \notin mask /\ HasNeighbourIn(w, h, i, mask, dx4, dy4)}
         IN  IF rounds = 1 THEN ClearAlpha(data, ring)
             ELSE MutExpandWhiteLastRing(w, h, data, mask \cup ring, rounds - 1)

\* Step 4: each round marks the unmasked 4-neighbours of the mask and clears
\* their alpha.
RECURSIVE ExpandWhite(_, _, _, _, _)
ExpandWhite(w, h, data, mask, rounds) ==
    IF rounds <= 0 THEN data
    ELSE LET ring == {i \in DOMAIN data :
                        i \notin mask /\ HasNeighbourIn(w, h, i, mask, dx4, dy4)}
         IN  ExpandWhite(w, h, ClearAlpha(data, ring), mask \cup ring, rounds - 1)

\* Global replacement: every white pixel is a seed.
MutWhiteSeedAll(w, h, match) ==
    PushSeeds([k \in 1..(w * h) |-> <<(k - 1) % w, (k - 1) \div w>>], w, match,
              [queue |-> <<>>, visited |-> {}])

\* Step 1: the seeds on the border.
WhiteEdgeSeeds(w, h, match) ==
    PushSeeds(EdgeScan(w, h), w, match, [queue |-> <<>>, visited |-> {}])

removeWhiteBackground(img, colorDistance, selection, expansion) ==
    LET w == img.width
        h == img.height
        threshold == 255 - colorDistance
        match == {i \in Pixels(img) : isWhite(img.data[i], threshold)}
        edge == WhiteEdgeSeeds(w, h, match)
        seeds == IF selection # NoSelection
                 THEN PushSeeds(SelectionScan(w, h, selection), w, match, edge)
                 ELSE edge
        filled == FloodWhite(w, h, match, img.data, 1, seeds)
    IN  [img EXCEPT !.data = ExpandWhite(w, h, filled.data, filled.visited, expansion)]

(***************************************************************************)
(* removeMagentaBackground (utils/spriteSheet.ts)                          *)
(*                                                                         *)
(* isMagenta works on r/255, g/255, b/255; every comparison is multiplied  *)
(* out to integers (max, min, delta below are the byte values), so it is   *)
(* exact where the doubles of the source round at a tie.                   *)
(***************************************************************************)
isMagenta(r, g, b, tolerance) ==
    LET max == Max(r, Max(g, b))
        min == Min(r, Min(g, b))
        delta == max - min
        \* delta / max < Math.max(0.15, 0.5 - tolerance / 255)
        lowSaturation ==
            \/ max = 0
            \/ 20 * delta < 3 * max
            \/ 510 * delta < max * (255 - 2 * tolerance)
        \* (max + min) / 2 < Math.max(0.3, 0.6 - tolerance / 255)
        dark == max + min < 153 \/ max + min < 306 - 2 * tolerance
        \* hue * delta / 60, before the wrap of a negative hue
        num == IF max = r THEN g - b
               ELSE IF max = g THEN (b - r) + 2 * delta
               ELSE (r - g) + 4 * delta
        \* hue * delta
        hueD == IF num < 0 THEN 60 * num + 360 * delta ELSE 60 * num
    IN  /\ ~lowSaturation
        /\ ~dark
        /\ delta # 0
        /\ IF 1650 + tolerance > 1800      \* maxHue > 360
           THEN \/ 5 * hueD >= (1350 - tolerance) * delta
                \/ 5 * hueD <= (tolerance - 150) * delta
           ELSE /\ 5 * hueD >= (1350 - tolerance) * delta
                /\ 5 * hueD <= (1650 + tolerance) * delta

isMagentaSpill(r, g, b, spillThreshold) ==
    /\ spillThreshold > 0
    /\ ~(r < 100 \/ b < 100)
    /\ ~(Abs(r - b) > 40)
    /\ (r + b) - 2 * g >= 2 * spillThreshold      \* (r + b) / 2 - g >= spillThreshold

\* An expansion loop that walks the 4-neighbourhood of the white variant.
RECURSIVE MutExpandMask4(_, _, _, _, _)
MutExpandMask4(w, h, n, mask, rounds) ==
    IF rounds <= 0 THEN mask
    ELSE MutExpandMask4(w, h, n,
             mask \cup {i \in 0..(n - 1) :
                          i \notin mask /\ HasNeighbourIn(w, h, i, mask, dx4, dy4)},
             rounds - 1)

\* The expansion loop: each round adds the unmasked 8-neighbours of the mask.
RECURSIVE ExpandMask8(_, _, _, _, _)
ExpandMask8(w, h, n, mask, rounds) ==
    IF rounds <= 0 THEN mask
    ELSE ExpandMask8(w, h, n,
             mask \cup {i \in 0..(n - 1) :
                          i \notin mask /\ HasNeighbourIn(w, h, i, mask, dx8, dy8)},
             rounds - 1)

\* A despill scan that tests every visible pixel, next to the mask or not.
RECURSIVE MutDespillEverywhere(_, _, _, _, _, _)
MutDespillEverywhere(w, h, idx, despill, neutralize, st) ==
    IF idx >= w * h THEN st
    ELSE LET p == st.data[idx]
             hit == p.a # 0 /\ isMagentaSpill(p.r, p.g, p.b, despill)
             cleared == ClearAlpha(st.data, {idx})
         IN  MutDespillEverywhere(w, h, idx + 1, despill, neutralize,
                 IF hit
                 THEN [data |-> IF neutralize THEN ClearRGB(cleared, {idx}) ELSE cleared,
                       mask |-> st.mask \cup {idx}]
                 ELSE st)

\* The despill scan, pixel by pixel from idx; st is [data, mask], both written
\* in place while the scan runs.
RECURSIVE DespillFrom(_, _, _, _, _, _)
DespillFrom(w, h, idx, despill, neutralize, st) ==
    IF idx >= w * h THEN st
    ELSE LET p == st.data[idx]
             hit == /\ p.a # 0
                    /\ HasNeighbourIn(w, h, idx, st.mask, dx8, dy8)
                    /\ isMagentaSpill(p.r, p.g, p.b, despill)
             cleared == ClearAlpha(st.data, {idx})
         IN  DespillFrom(w, h, idx + 1, despill, neutralize,
                 IF hit
                 THEN [data |-> IF neutralize THEN ClearRGB(cleared, {idx}) ELSE cleared,
                       mask |-> st.mask \cup {idx}]
                 ELSE st)

\* The passes without the closing neutralize loop over all transparent pixels.
MutSkipFinalNeutralize(data, mask, w, h, expansion, despill, neutralize) ==
    LET grown == IF expansion > 0 THEN ExpandMask8(w, h, w * h, mask, expansion) ELSE mask
        applied == IF neutralize THEN ClearRGB(ClearAlpha(data, grown), grown)
                   ELSE ClearAlpha(data, grown)
    IN  IF despill > 0
        THEN DespillFrom(w, h, 0, despill, neutralize,
                         [data |-> applied, mask |-> grown]).data
        ELSE applied

applyExpansionAndDespill(data, mask, w, h, expansion, despill, neutralize) ==
    LET grown == IF expansion > 0 THEN ExpandMask8(w, h, w * h, mask, expansion) ELSE mask
        \* Apply mask to image data
        applied == IF neutralize THEN ClearRGB(ClearAlpha(data, grown), grown)
                   ELSE ClearAlpha(data, grown)
        spilled == IF despill > 0
                   THEN DespillFrom(w, h, 0, despill, neutralize,
                                    [data |-> applied, mask |-> grown]).data
                   ELSE applied
    IN  IF neutralize
        THEN ClearRGB(spilled, {i \in DOMAIN spilled : spilled[i].a = 0})
        ELSE spilled

\* The queue loop of the flood-fill mode: it only grows visited.
RECURSIVE FloodMagenta(_, _, _, _, _)
FloodMagenta(w, h, match, head, st) ==
    IF head > Len(st.queue) THEN st.visited
    ELSE LET c == st.queue[head]
         IN  FloodMagenta(w, h, match, head + 1,
                          PushSeeds(NeighbourCands(w, h, c[1], c[2]), w, match, st))

\* The closure of cur in match under steps to any of the 8 neighbours.
RECURSIVE MutGrow8(_, _, _, _)
MutGrow8(w, h, match, cur) ==
    LET next == cur \cup {i \in match : HasNeighbourIn(w, h, i, cur, dx8, dy8)}
    IN  IF next = cur THEN cur ELSE MutGrow8(w, h, match, next)

\* A flood fill that walks the 8-neighbourhood: it is the closure of the border
\* seeds under diagonal steps too.
MutMagentaFlood8(w, h, match) ==
    LET border == {i \in match : (i % w) \in {0, w - 1} \/ (i \div w) \in {0, h - 1}}
    IN  MutGrow8(w, h, match, border)

\* Flood fill mode: seed from edges, then flood fill; the result is visited.
MagentaFloodMask(w, h, match) ==
    FloodMagenta(w, h, match, 1,
                 PushSeeds(EdgeScan(w, h), w, match, [queue |-> <<>>, visited |-> {}]))

\* Global replacement that only takes the pixels the flood fill would reach.
MutGlobalAsFlood(w, h, match) == MagentaFloodMask(w, h, match)

\* Global replacement mode: the mask is every magenta pixel.
MagentaGlobalMask(w, h, match) == match

removeMagentaBackground(img, tolerance, options) ==
    LET w == img.width
        h == img.height
        data == img.data
        match == {i \in Pixels(img) :
                    isMagenta(data[i].r, data[i].g, data[i].b, tolerance)}
    IN  IF ~options.useFloodFill
        THEN LET mask == MagentaGlobalMask(w, h, match)
                 first == IF options.neutralize
                          THEN ClearRGB(ClearAlpha(data, mask), mask)
                          ELSE ClearAlpha(data, mask)
             IN  [img EXCEPT !.data =
                     applyExpansionAndDespill(first, mask, w, h, options.expansion,
                                              options.despill, options.neutralize)]
        ELSE [img EXCEPT !.data =
                 applyExpansionAndDespill(data, MagentaFloodMask(w, h, match), w, h,
                                          options.expansion, options.despill,
                                          options.neutralize)]

(***************************************************************************)
(* The removal state machine: a stored bitmap is cloned, a removal         *)
(* function is called on the clone in place, and may be called again with  *)
(* the same arguments.                                                     *)
(***************************************************************************)
\* Bounds of the removal model.
MaxExpansion == 1
MaxCalls == 2

\* Buffer shapes <<width, height>>.
GridShapes == {<<1, 1>>, <<2, 1>>, <<1, 3>>, <<2, 2>>, <<3, 2>>, <<2, 3>>, <<3, 3>>}

\* Pixel values.  White and Pink pass the white test at colorDistance 30, only
\* White at 0; Magenta passes isMagenta at tolerance 30; Pink is no magenta but
\* a magenta spill at despill 12; Veil is Pink already transparent.
White   == [r |-> 255, g |-> 255, b |-> 255, a |-> 255]
Ink     == [r |-> 0,   g |-> 0,   b |-> 0,   a |-> 255]
Magenta == [r |-> 255, g |-> 0,   b |-> 255, a |-> 255]
Pink    == [r |-> 240, g |-> 226, b |-> 240, a |-> 255]
Veil    == [r |-> 240, g |-> 226, b |-> 240, a |-> 0]

\* A source bitmap holds the two pixel values of one pair, in any arrangement.
TonePairs == {<<White, Ink>>, <<Magenta, Pink>>, <<Magenta, Veil>>}

\* Arguments the callers pass.
ColorDistances == {0, 30}
CentreBox == [x |-> 34, y |-> 34, w |-> 33, h |-> 33]
Selections == {NoSelection, CentreBox}
Tolerances == {30}
Despills == {0, 12}
MagentaOptions ==
    [expansion : 0..MaxExpansion, despill : Despills,
     neutralize : BOOLEAN, useFloodFill : BOOLEAN]

WhiteCalls ==
    {[fn |-> "white", colorDistance |-> cd, selection |-> sel, expansion |-> e] :
        cd \in ColorDistances, sel \in Selections, e \in 0..MaxExpansion}
MagentaCalls ==
    {[fn |-> "magenta", tolerance |-> t, options |-> o] :
        t \in Tolerances, o \in MagentaOptions}

\* The call `call` made on buffer img.
ApplyCall(img, call) ==
    IF call.fn = "white"
    THEN removeWhiteBackground(img, call.colorDistance, call.selection, call.expansion)
    ELSE removeMagentaBackground(img, call.tolerance, call.options)

\* cloneImageData: a fresh working copy of the stored bitmap.
CloneSource ==
    /\ callCount > 0
    /\ imageData' = source
    /\ lastCall' = NoCall
    /\ callCount' = 0
    /\ UNCHANGED <<source, tilingVars, blendVars, engineVars, pageVars>>

CallRemoveWhite(call) ==
    /\ callCount = 0
    /\ imageData' = removeWhiteBackground(imageData, call.colorDistance,
                                          call.selection, call.expansion)
    /\ lastCall' = call
    /\ callCount' = 1
    /\ UNCHANGED <<source, tilingVars, blendVars, engineVars, pageVars>>

CallRemoveMagenta(call) ==
    /\ callCount = 0
    /\ imageData' = removeMagentaBackground(imageData, call.tolerance, call.options)
    /\ lastCall' = call
    /\ callCount' = 1
    /\ UNCHANGED <<source, tilingVars, blendVars, engineVars, pageVars>>

\* The same function called again on the same buffer with the same arguments.
RepeatCall ==
    /\ callCount >= 1 /\ callCount < MaxCalls
    /\ imageData' = ApplyCall(imageData, lastCall)
    /\ callCount' = callCount + 1
    /\ UNCHANGED <<source, lastCall, tilingVars, blendVars, engineVars, pageVars>>

RemovalInit ==
    /\ \E shape \in GridShapes, pair \in TonePairs :
          source \in [width : {shape[1]}, height : {shape[2]},
                      data : [0..(shape[1] * shape[2] - 1) -> {pair[1], pair[2]}]]
    /\ imageData = source
    /\ lastCall = NoCall
    /\ callCount = 0
    /\ TilingIdle /\ BlendIdle /\ EngineIdle /\ PageIdle

RemovalNext ==
    \/ CloneSource
    \/ \E call \in WhiteCalls : CallRemoveWhite(call)
    \/ \E call \in MagentaCalls : CallRemoveMagenta(call)
    \/ RepeatCall

SpecRemoval == RemovalInit /\ [][RemovalNext]_vars

(***************************************************************************)
(* Claims about background removal                                         *)
(***************************************************************************)
BorderPixels(w, h) ==
    {i \in 0..(w * h - 1) : (i % w) \in {0, w - 1} \/ (i \div w) \in {0, h - 1}}

\* The pixels of `match` joined to a border pixel of `match` by a 4-connected
\* path inside `match`: the least set holding the border pixels of `match` and
\* closed under 4-steps inside `match`.
RECURSIVE Closure4(_, _, _, _)
Closure4(w, h, match, cur) ==
    LET next == cur \cup {i \in match : HasNeighbourIn(w, h, i, cur, dx4, dy4)}
    IN  IF next = cur THEN cur ELSE Closure4(w, h, match, next)

BorderConnected(w, h, match) == Closure4(w, h, match, match \cap BorderPixels(w, h))

WhiteIn(img, colorDistance) ==
    {i \in Pixels(img) : isWhite(img.data[i], 255 - colorDistance)}
MagentaIn(img, tolerance) ==
    {i \in Pixels(img) :
        isMagenta(img.data[i].r, img.data[i].g, img.data[i].b, tolerance)}

Opaque(img) == \A i \in Pixels(img) : img.data[i].a = 255

\* The call just made was the first on a fresh clone of source.
FirstCall(fn) == callCount = 1 /\ lastCall.fn = fn

\* C3: removeWhiteBackground without selection and with expansion 0 on a fully
\* opaque buffer: a pixel has alpha 0 afterwards exactly when it is white
\* (R, G, B >= 255 - colorDistance) and joined to a white border pixel by a
\* 4-connected path of white pixels; every other pixel keeps its alpha.
C3_WhiteFloodExact ==
    (/\ FirstCall("white")
     /\ lastCall.selection = NoSelection /\ lastCall.expansion = 0
     /\ Opaque(source)) =>
        LET bg == BorderConnected(source.width, source.height,
                                  WhiteIn(source, lastCall.colorDistance))
        IN  \A i \in Pixels(source) :
               /\ (imageData.data[i].a = 0) <=> (i \in bg)
               /\ i \notin bg => imageData.data[i].a = source.data[i].a

\* A 3x3 white buffer with a black centre: the eight white pixels are
\* transparent, the square is opaque.
C3_Witness ==
    /\ FirstCall("white")
    /\ lastCall.selection = NoSelection /\ lastCall.expansion = 0
    /\ source.width = 3 /\ source.height = 3
    /\ \A i \in Pixels(source) : source.data[i] = IF i = 4 THEN Ink ELSE White
    /\ Transparent(imageData) = Pixels(source) \ {4}
    /\ imageData.data[4].a = 255

\* C4: removeMagentaBackground with useFloodFill, expansion 0 and despill 0:
\* a magenta pixel with no 4-connected magenta path to a magenta border pixel
\* keeps its alpha.
C4_IslandStaysOpaque ==
    (/\ FirstCall("magenta")
     /\ lastCall.options.useFloodFill
     /\ lastCall.options.expansion = 0 /\ lastCall.options.despill = 0) =>
        LET magenta == MagentaIn(source, lastCall.tolerance)
            bg == BorderConnected(source.width, source.height, magenta)
        IN  \A i \in magenta \ bg : imageData.data[i].a = source.data[i].a

\* A magenta island in the centre stays opaque while a magenta border pixel
\* was cleared.
C4_Witness ==
    /\ FirstCall("magenta")
    /\ lastCall.options.useFloodFill
    /\ lastCall.options.expansion = 0 /\ lastCall.options.despill = 0
    /\ source.width = 3 /\ source.height = 3
    /\ source.data[4] = Magenta /\ imageData.data[4].a = 255
    /\ \E i \in Pixels(source) : source.data[i] = Magenta /\ imageData.data[i].a = 0

\* C5: removeMagentaBackground with useFloodFill = false: every magenta pixel
\* has alpha 0 afterwards, connected to the border or not; with expansion 0 and
\* despill 0 no other pixel's alpha changes.
C5_GlobalReplacement ==
    (FirstCall("magenta") /\ ~lastCall.options.useFloodFill) =>
        LET magenta == MagentaIn(source, lastCall.tolerance)
        IN  /\ \A i \in magenta : imageData.data[i].a = 0
            /\ (lastCall.options.expansion = 0 /\ lastCall.options.despill = 0) =>
                  \A i \in Pixels(source) \ magenta :
                      imageData.data[i].a = source.data[i].a

\* The magenta island the flood fill cannot reach is cleared, the ring around
\* it is not.
C5_Witness ==
    /\ FirstCall("magenta") /\ ~lastCall.options.useFloodFill
    /\ lastCall.options.expansion = 0 /\ lastCall.options.despill = 0
    /\ source.width = 3 /\ source.height = 3
    /\ 4 \in MagentaIn(source, lastCall.tolerance)
    /\ 4 \notin BorderConnected(3, 3, MagentaIn(source, lastCall.tolerance))
    /\ imageData.data[4].a = 0
    /\ imageData.data[1].a = 255

\* C6: a removal function called twice in a row on the same buffer with the
\* same arguments leaves the alpha channel of the first call.
C6_Idempotent ==
    [][(callCount >= 1 /\ callCount' = callCount + 1)
          => AlphaOf(imageData') = AlphaOf(imageData)]_vars

\* The second magenta call, with expansion, despill and neutralize, was made on
\* a buffer the first call had partly cleared.
C6_Witness ==
    /\ callCount = 2 /\ lastCall.fn = "magenta"
    /\ lastCall.options.expansion > 0 /\ lastCall.options.despill > 0
    /\ lastCall.options.neutralize
    /\ Transparent(imageData) # {}
    /\ Transparent(imageData) # Pixels(imageData)

\* The call `call` with its expansion argument replaced by e.
WithExpansion(call, e) ==
    IF call.fn = "white" THEN [call EXCEPT !.expansion = e]
    ELSE [call EXCEPT !.options.expansion = e]

ExpansionOf(call) ==
    IF call.fn = "white" THEN call.expansion ELSE call.options.expansion

\* C7: on the same input and with otherwise identical arguments, the pixels
\* with alpha 0 after a removal with expansion k are among those with alpha 0
\* after the removal with expansion k + 1.
C7_ExpansionMonotone ==
    (callCount = 1) =>
        Transparent(imageData) \subseteq
            Transparent(ApplyCall(source, WithExpansion(lastCall, ExpansionOf(lastCall) + 1)))

\* A white removal with expansion 1 that left a pixel opaque which expansion 2
\* clears.
C7_Witness ==
    /\ FirstCall("white") /\ lastCall.expansion = 1
    /\ Transparent(imageData) # {}
    /\ Transparent(imageData) # Transparent(ApplyCall(source, WithExpansion(lastCall, 2)))

(***************************************************************************)
(* 3. Watermark reversal (utils/geminiWatermark.ts)                        *)
(*                                                                         *)
(* The alpha map is a Float32Array holding maxChannel / 255.0.  For every  *)
(* k in 1..254 the Float32 nearest to k/255 lies above k/255, so the       *)
(* quotient (watermarked - alpha*255) / (1 - alpha) comes out just below   *)
(* the exact 255*(watermarked - k) / (255 - k) and Math.round of it is the *)
(* exact quotient rounded to nearest with ties DOWN; for alpha capped to   *)
(* 0.99 the quotient is 100*watermarked - 25245.  ReverseChannel below     *)
(* agrees with the double arithmetic of the source on all 256 x 256        *)
(* (watermarked, k) pairs.                                                 *)
(***************************************************************************)
\* ALPHA_THRESHOLD = 0.002, as thousandths; MAX_ALPHA = 0.99, as hundredths.
ALPHA_THRESHOLD_MILLI == 2
MAX_ALPHA_CENTI == 99
LOGO_VALUE == 255

\* n / d (d > 0) rounded to the nearest integer, ties towards minus infinity.
RoundHalfDownDiv(n, d) == -((d - 2 * n) \div (2 * d))

\* Reversal that truncates where the source rounds.
MutReverseTruncates(w, k) ==
    IF 1000 * k < ALPHA_THRESHOLD_MILLI * 255 THEN w
    ELSE IF 100 * k > MAX_ALPHA_CENTI * 255
         THEN Max(0, Min(255, 100 * w - MAX_ALPHA_CENTI * LOGO_VALUE))
         ELSE Max(0, Min(255, FloorDiv(255 * w - k * LOGO_VALUE, 255 - k)))

\* One channel of applyReverseAlphaBlending: the stored value w under the
\* alpha-map entry k/255.
ReverseChannel(w, k) ==
    IF 1000 * k < ALPHA_THRESHOLD_MILLI * 255 THEN w                  \* continue
    ELSE IF 100 * k > MAX_ALPHA_CENTI * 255                           \* alpha = MAX_ALPHA
         THEN Max(0, Min(255, 100 * w - MAX_ALPHA_CENTI * LOGO_VALUE))
         ELSE Max(0, Min(255, RoundHalfDownDiv(255 * w - k * LOGO_VALUE, 255 - k)))

\* How the watermark got there: watermarked = alpha * logo + (1 - alpha) * original,
\* stored as a byte.
ForwardBlend(o, k) == RoundDiv(k * LOGO_VALUE + (255 - k) * o, 255)

BlendWatermark ==
    /\ blendPc = "clean"
    /\ watermarked' = ForwardBlend(original, alphaK)
    /\ blendPc' = "blended"
    /\ UNCHANGED <<original, alphaK, tilingVars, removalVars, engineVars, pageVars>>

ReverseBlend ==
    /\ blendPc \in {"clean", "blended"}
    /\ watermarked' = ReverseChannel(watermarked, alphaK)
    /\ blendPc' = IF blendPc = "blended" THEN "restored" ELSE "stripped"
    /\ UNCHANGED <<original, alphaK, tilingVars, removalVars, engineVars, pageVars>>

BlendInit ==
    /\ original \in 0..255
    /\ alphaK \in 0..255
    /\ watermarked = original
    /\ blendPc = "clean"
    /\ TilingIdle /\ RemovalIdle /\ EngineIdle /\ PageIdle

BlendNext == BlendWatermark \/ ReverseBlend

SpecBlend == BlendInit /\ [][BlendNext]_vars

\* C8 as stated: for every original value and every alpha <= 0.99 the value
\* reconstructed from the 8-bit blend is within 1 of the original.
C8_AsStated ==
    (blendPc = "restored" /\ 100 * alphaK <= MAX_ALPHA_CENTI * 255) =>
        Abs(watermarked - original) <= 1

\* C8, amended: the reconstruction is within 1 of the original for every
\* original value and every alpha-map value alpha <= 2/3 (k <= 170).
C8_RoundTripBound ==
    (blendPc = "restored" /\ 3 * alphaK <= 2 * 255) =>
        Abs(watermarked - original) <= 1

\* A blend at alpha = 2/3 whose reconstruction is off by exactly one.
C8_Witness ==
    /\ blendPc = "restored" /\ alphaK = 170
    /\ Abs(watermarked - original) = 1

(***************************************************************************)
(* 4. The watermark engine singleton (utils/geminiWatermark.ts)            *)
(*                                                                         *)
(* A caller is one run of "engine = await getGeminiWatermarkEngine();      *)
(* engine.removeWatermark(imageData)" (pages/watermark.vue,                *)
(* components/GeminiWatermarkRemover.vue).  JavaScript is single-threaded: *)
(* an action is the synchronous stretch of code between two awaits, or an  *)
(* event of the image loader.                                              *)
(***************************************************************************)
MaxCallers == 2

Callers == 1..MaxCallers
LogoSizes == {48, 96}

NotInitializedError == "Engine not initialized. Call init() first."
NotLoadedError(size) ==
    IF size = 48 THEN "Watermark image for size 48 not loaded"
                 ELSE "Watermark image for size 96 not loaded"
LoadError == "image load error event"

\* The two PNG assets are opaque captures of the logo; their bytes are not
\* part of the source text.  A logo is given by the colours of its even and
\* odd pixels.
Logos ==
    { [even |-> <<0, 0, 0>>,       odd |-> <<0, 0, 0>>],
      [even |-> <<128, 120, 90>>,  odd |-> <<1, 0, 0>>],
      [even |-> <<255, 255, 255>>, odd |-> <<64, 200, 170>>] }
LogoPixel(logo, i) == IF i % 2 = 0 THEN logo.even ELSE logo.odd

\* detectWatermarkConfig with the two size tests joined by `or`.
MutDetectEither(w, h) ==
    IF w > 1024 \/ h > 1024
    THEN [logoSize |-> 96, marginRight |-> 64, marginBottom |-> 64]
    ELSE [logoSize |-> 48, marginRight |-> 32, marginBottom |-> 32]

detectWatermarkConfig(w, h) ==
    IF w > 1024 /\ h > 1024
    THEN [logoSize |-> 96, marginRight |-> 64, marginBottom |-> 64]
    ELSE [logoSize |-> 48, marginRight |-> 32, marginBottom |-> 32]

calculateWatermarkPosition(w, h, config) ==
    [x |-> w - config.marginRight - config.logoSize,
     y |-> h - config.marginBottom - config.logoSize,
     width |-> config.logoSize, height |-> config.logoSize]

\* The alpha map of a size x size capture, entry i as k of k/255.
calculateAlphaMap(logo, size) ==
    [i \in 0..(size * size - 1) |->
        LET px == LogoPixel(logo, i) IN Max(px[1], Max(px[2], px[3]))]

\* The value pixel p holds after the row-major loop of
\* applyReverseAlphaBlending: imgIdx = ((y + row) * width + (x + col)) * 4
\* selects p from row `row` only with col = p - (y + row) * width - x, and
\* every (row, col) that selects p rewrites its RGB in turn.  An imgIdx
\* outside the buffer reads undefined and writes nothing.
RECURSIVE ReversePixel(_, _, _, _, _, _)
ReversePixel(px, p, w, alphaMap, position, row) ==
    IF row >= position.height THEN px
    ELSE LET col == p - (position.y + row) * w - position.x
             k == alphaMap[row * position.width + col]
             next == IF col >= 0 /\ col < position.width
                     THEN [r |-> ReverseChannel(px.r, k),
                           g |-> ReverseChannel(px.g, k),
                           b |-> ReverseChannel(px.b, k),
                           a |-> px.a]
                     ELSE px
         IN ReversePixel(next, p, w, alphaMap, position, row + 1)

applyReverseAlphaBlending(img, alphaMap, position) ==
    [img EXCEPT !.data =
        [p \in Pixels(img) |->
            ReversePixel(img.data[p], p, img.width, alphaMap, position, 0)]]

\* GeminiWatermarkEngine.getAlphaMap: the map and the cache after the call,
\* or the error thrown.
getAlphaMap(size, images, maps, assetOf) ==
    IF maps[size] # <<>>
    THEN [error |-> Null, map |-> maps[size], alphaMaps |-> maps]
    ELSE IF size \notin images
    THEN [error |-> NotLoadedError(size), map |-> <<>>, alphaMaps |-> maps]
    ELSE LET m == calculateAlphaMap(assetOf[size].logo, size)
         IN [error |-> Null, map |-> m, alphaMaps |-> [maps EXCEPT ![size] = m]]

\* removeWatermark without its guard.
MutRemoveUnguarded(img, isInit, images, maps, assetOf) ==
    LET config == detectWatermarkConfig(img.width, img.height)
        position == calculateWatermarkPosition(img.width, img.height, config)
        got == getAlphaMap(config.logoSize, images, maps, assetOf)
    IN IF got.error # Null
       THEN [error |-> got.error, image |-> img, alphaMaps |-> maps]
       ELSE [error |-> Null,
             image |-> applyReverseAlphaBlending(img, got.map, position),
             alphaMaps |-> got.alphaMaps]

\* GeminiWatermarkEngine.removeWatermark: the error thrown (Null if none),
\* the buffer and the cache after the call.
removeWatermark(img, isInit, images, maps, assetOf) ==
    IF ~isInit
    THEN [error |-> NotInitializedError, image |-> img, alphaMaps |-> maps]
    ELSE LET config == detectWatermarkConfig(img.width, img.height)
             position == calculateWatermarkPosition(img.width, img.height, config)
             got == getAlphaMap(config.logoSize, images, maps, assetOf)
         IN IF got.error # Null
            THEN [error |-> got.error, image |-> img, alphaMaps |-> maps]
            ELSE [error |-> Null,
                  image |-> applyReverseAlphaBlending(img, got.map, position),
                  alphaMaps |-> got.alphaMaps]

\* getGeminiWatermarkEngine up to its first await.  The first call creates
\* the singleton and runs init() up to `await Promise.all`, which starts both
\* loads; any later call finds engineInstance set and returns it.
GetEngine(c) ==
    /\ callers[c] = "idle"
    /\ IF engineInstance = Null
       THEN /\ engineInstance' = "engine"
            /\ assets' = [s \in LogoSizes |-> [assets[s] EXCEPT !.state = "loading"]]
            /\ loadsStarted' = loadsStarted + 1
            /\ initPc' = "awaiting"
            /\ callers' = [callers EXCEPT ![c] = "inInit"]
       ELSE /\ callers' = [callers EXCEPT ![c] = "hasEngine"]
            /\ UNCHANGED <<engineInstance, assets, loadsStarted, initPc>>
    /\ UNCHANGED <<initialized, watermarkImages, alphaMaps, wmBuffer, thrown,
                   tilingVars, removalVars, blendVars, pageVars>>

\* img.onload = () => resolve(img)
AssetLoad(s) ==
    /\ assets[s].state = "loading"
    /\ assets' = [assets EXCEPT ![s].state = "loaded"]
    /\ UNCHANGED <<engineInstance, initialized, watermarkImages, alphaMaps, initPc,
                   loadsStarted, callers, wmBuffer, thrown,
                   tilingVars, removalVars, blendVars, pageVars>>

\* img.onerror = reject
AssetError(s) ==
    /\ assets[s].state = "loading"
    /\ assets' = [assets EXCEPT ![s].state = "failed"]
    /\ UNCHANGED <<engineInstance, initialized, watermarkImages, alphaMaps, initPc,
                   loadsStarted, callers, wmBuffer, thrown,
                   tilingVars, removalVars, blendVars, pageVars>>

\* Promise.all resolved: init() stores both images and sets initialized, and
\* the call of getGeminiWatermarkEngine that awaited it returns the engine.
InitResume ==
    /\ initPc = "awaiting"
    /\ \A s \in LogoSizes : assets[s].state = "loaded"
    /\ watermarkImages' = LogoSizes
    /\ initialized' = TRUE
    /\ initPc' = "resolved"
    /\ callers' = [c \in Callers |->
                      IF callers[c] = "inInit" THEN "hasEngine" ELSE callers[c]]
    /\ UNCHANGED <<engineInstance, alphaMaps, assets, loadsStarted, wmBuffer, thrown,
                   tilingVars, removalVars, blendVars, pageVars>>

\* Promise.all rejected on the first failed load: init() and the awaiting
\* call of getGeminiWatermarkEngine reject; engineInstance stays set.
InitReject ==
    /\ initPc = "awaiting"
    /\ \E s \in LogoSizes : assets[s].state = "failed"
    /\ initPc' = "rejected"
    /\ callers' = [c \in Callers |->
                      IF callers[c] = "inInit" THEN "rejected" ELSE callers[c]]
    /\ thrown' = [c \in Callers |->
                      IF callers[c] = "inInit" THEN LoadError ELSE thrown[c]]
    /\ UNCHANGED <<engineInstance, initialized, watermarkImages, alphaMaps, assets,
                   loadsStarted, wmBuffer, tilingVars, removalVars, blendVars, pageVars>>

\* engine.removeWatermark(imageData) by a caller that holds the engine.
RemoveWatermark(c) ==
    /\ callers[c] = "hasEngine"
    /\ LET out == removeWatermark(wmBuffer[c], initialized, watermarkImages,
                                  alphaMaps, assets)
       IN /\ wmBuffer' = [wmBuffer EXCEPT ![c] = out.image]
          /\ alphaMaps' = out.alphaMaps
          /\ thrown' = [thrown EXCEPT ![c] = out.error]
          /\ callers' = [callers EXCEPT ![c] =
                            IF out.error = Null THEN "done" ELSE "threw"]
    /\ UNCHANGED <<engineInstance, initialized, watermarkImages, assets, initPc,
                   loadsStarted, tilingVars, removalVars, blendVars, pageVars>>

\* Buffers small enough that the 48 x 48 footprint, whose origin is
\* (width - 80, height - 80), reaches their first pixels.
WmShapes == {<<1, 66>>, <<2, 50>>, <<3, 44>>}
WmTones == { [r |-> 200, g |-> 90, b |-> 255, a |-> 255],
             [r |-> 131, g |-> 128, b |-> 1, a |-> 77] }
WmImage(shape, tone) ==
    [width |-> shape[1], height |-> shape[2],
     data |-> [p \in 0..(shape[1] * shape[2] - 1) |-> tone]]

EngineInit ==
    /\ engineInstance = Null
    /\ initialized = FALSE
    /\ watermarkImages = {}
    /\ alphaMaps = [s \in LogoSizes |-> <<>>]
    /\ \E logo \in Logos : assets = [s \in LogoSizes |-> [state |-> "idle", logo |-> logo]]
    /\ initPc = "none"
    /\ loadsStarted = 0
    /\ callers = [c \in Callers |-> "idle"]
    /\ \E shape \in WmShapes, tone \in WmTones :
           wmBuffer = [c \in Callers |-> WmImage(shape, tone)]
    /\ thrown = [c \in Callers |-> Null]
    /\ TilingIdle /\ RemovalIdle /\ BlendIdle /\ PageIdle

EngineNext ==
    \/ \E c \in Callers : GetEngine(c)
    \/ \E s \in LogoSizes : AssetLoad(s)
    \/ \E s \in LogoSizes : AssetError(s)
    \/ InitResume
    \/ InitReject
    \/ \E c \in Callers : RemoveWatermark(c)

SpecEngine == EngineInit /\ [][EngineNext]_vars

\* C9 as stated: under any interleaving of callers of getGeminiWatermarkEngine,
\* every caller that has received the engine holds an initialized one, no
\* removeWatermark throws the not-initialized error, and the asset loads are
\* started at most once.
C9_AsStated ==
    /\ \A c \in Callers :
          /\ callers[c] = "hasEngine" => initialized
          /\ thrown[c] # NotInitializedError
    /\ loadsStarted <= 1

\* C10: a removeWatermark call made while the engine is not initialized
\* throws 'Engine not initialized' and changes neither the caller's pixel
\* buffer nor the alpha-map cache.
C10_UninitializedThrows ==
    [][\A c \in Callers :
          (callers[c] = "hasEngine" /\ callers'[c] # "hasEngine" /\ ~initialized) =>
              /\ callers'[c] = "threw"
              /\ thrown'[c] = NotInitializedError
              /\ wmBuffer'[c] = wmBuffer[c]
              /\ alphaMaps' = alphaMaps]_vars

\* A caller whose removeWatermark threw the not-initialized error while the
\* engine was (and still is) uninitialized.
C10_Witness ==
    \E c \in Callers :
        /\ callers[c] = "threw" /\ thrown[c] = NotInitializedError
        /\ ~initialized

\* C23 as the specification states it: once the first getGeminiWatermarkEngine
\* call has rejected because an asset failed to load, a later call attempts
\* initialization again (it starts the asset loads and awaits them) and does
\* not resolve with an engine whose removeWatermark throws the not-initialized
\* error.
C23_AsStated ==
    [][\A c \in Callers :
          (initPc = "rejected" /\ callers[c] = "idle" /\ callers'[c] # "idle") =>
              /\ loadsStarted' = loadsStarted + 1
              /\ callers'[c] = "inInit"
              /\ ~(callers'[c] = "hasEngine" /\ ~initialized')]_vars

(***************************************************************************)
(* Claims about the footprint of the watermark reversal                    *)
(***************************************************************************)
\* The rectangle calculateWatermarkPosition returns for buffer img, as the
\* set of pixel indices (px, py) inside it.
Footprint(img) ==
    LET position == calculateWatermarkPosition(
                        img.width, img.height,
                        detectWatermarkConfig(img.width, img.height))
    IN  {p \in Pixels(img) :
            /\ (p % img.width) >= position.x
            /\ (p % img.width) < position.x + position.width
            /\ (p \div img.width) >= position.y
            /\ (p \div img.width) < position.y + position.height}

\* C11 as stated: a removeWatermark call that returns changes no alpha byte
\* and no pixel outside the footprint rectangle, whatever the image size.
C11_AsStated ==
    [][\A c \in Callers :
          (callers[c] = "hasEngine" /\ callers'[c] = "done") =>
              \A p \in Pixels(wmBuffer[c]) :
                  /\ wmBuffer'[c].data[p].a = wmBuffer[c].data[p].a
                  /\ p \notin Footprint(wmBuffer[c]) =>
                         wmBuffer'[c].data[p] = wmBuffer[c].data[p]]_vars

(***************************************************************************)
(* 5. Watermark info (GeminiWatermarkEngine.getWatermarkInfo)              *)
(***************************************************************************)
\* Image sides on both sides of the 1024 threshold.
InfoSides == {1, 48, 80, 512, 1023, 1024, 1025, 1026, 2048, 4096}

getWatermarkInfo(w, h) ==
    LET config == detectWatermarkConfig(w, h)
        position == calculateWatermarkPosition(w, h, config)
    IN  [size |-> config.logoSize, position |-> position, config |-> config]

GetWatermarkInfo ==
    /\ watermarkInfo = NoInfo
    /\ watermarkInfo' = getWatermarkInfo(infoWidth, infoHeight)
    /\ UNCHANGED <<infoWidth, infoHeight, gifVars, extraVars,
                   tilingVars, removalVars, blendVars, engineVars>>

InfoInit ==
    /\ infoWidth \in InfoSides
    /\ infoHeight \in InfoSides
    /\ watermarkInfo = NoInfo
    /\ TilingIdle /\ RemovalIdle /\ BlendIdle /\ EngineIdle /\ GifIdle /\ ExtraIdle

InfoNext == GetWatermarkInfo

SpecInfo == InfoInit /\ [][InfoNext]_vars

\* C12: the configuration is 96 / 64 / 64 exactly when both sides exceed
\* 1024, and 48 / 32 / 32 in every other case.
C12_ConfigBySize ==
    watermarkInfo # NoInfo =>
        LET c == watermarkInfo.config
        IN  /\ (infoWidth > 1024 /\ infoHeight > 1024) <=>
                   (c.logoSize = 96 /\ c.marginRight = 64 /\ c.marginBottom = 64)
            /\ ~(infoWidth > 1024 /\ infoHeight > 1024) <=>
                   (c.logoSize = 48 /\ c.marginRight = 32 /\ c.marginBottom = 32)

\* The small configuration for an image 2048 wide and exactly 1024 high.
C12_Witness ==
    /\ watermarkInfo # NoInfo
    /\ infoWidth = 2048 /\ infoHeight = 1024
    /\ watermarkInfo.config.logoSize = 48

(***************************************************************************)
(* 6. The sprite-sheet page (pages/gif.vue, utils/spriteSheet.ts,          *)
(*    utils/gifEncoder.ts)                                                 *)
(*                                                                         *)
(* Canvas.  A 2D canvas stores premultiplied colour, so a pixel written    *)
(* with alpha 0 reads back as transparent black.  drawImage at a whole     *)
(* pixel offset and scale 1 copies pixels; at a half pixel offset the      *)
(* default imageSmoothingEnabled = true samples midway between two pixels, *)
(* which is modelled as their alpha-weighted mean (the exact rounding is   *)
(* the browser's).  Offsets are counted in half pixels.                    *)
(***************************************************************************)
MaxGrid == 2
MaxOutput == 3

\* const tolerance = ref(150)
GifTolerance == 150

Clear == [r |-> 0, g |-> 0, b |-> 0, a |-> 0]

\* putImageData followed by getImageData of one pixel.
CanvasPixel(px) ==
    IF px.a = 0 THEN Clear
    ELSE IF px.a = 255 THEN px
    ELSE [r |-> Min(255, RoundDiv(RoundDiv(px.r * px.a, 255) * 255, px.a)),
          g |-> Min(255, RoundDiv(RoundDiv(px.g * px.a, 255) * 255, px.a)),
          b |-> Min(255, RoundDiv(RoundDiv(px.b * px.a, 255) * 255, px.a)),
          a |-> px.a]

\* The sample midway between two pixels.
Mix(p, q) ==
    IF p.a + q.a = 0 THEN Clear
    ELSE [r |-> RoundDiv(p.r * p.a + q.r * q.a, p.a + q.a),
          g |-> RoundDiv(p.g * p.a + q.g * q.a, p.a + q.a),
          b |-> RoundDiv(p.b * p.a + q.b * q.a, p.a + q.a),
          a |-> RoundDiv(p.a + q.a, 2)]

\* The canvas pixel (x, y) of srcCanvas, transparent outside it.
SrcAt(img, x, y) ==
    IF x >= 0 /\ x < img.width /\ y >= 0 /\ y < img.height
    THEN CanvasPixel(img.data[y * img.width + x])
    ELSE Clear

\* The source sampled at column u2 / 2 of row y, and at (u2 / 2, v2 / 2).
RowSample(img, u2, y) ==
    IF u2 % 2 = 0 THEN SrcAt(img, u2 \div 2, y)
    ELSE Mix(SrcAt(img, (u2 - 1) \div 2, y), SrcAt(img, (u2 + 1) \div 2, y))
Sample(img, u2, v2) ==
    IF v2 % 2 = 0 THEN RowSample(img, u2, v2 \div 2)
    ELSE Mix(RowSample(img, u2, (v2 - 1) \div 2), RowSample(img, u2, (v2 + 1) \div 2))

\* The offsets of cropFromCenter, in half pixels: sx = srcCenterX - cropWidth / 2,
\* dx = (targetWidth - cropWidth) / 2.
CropOffsets2(srcW, srcH, targetW, targetH) ==
    LET cropWidth == Min(srcW, targetW)
        cropHeight == Min(srcH, targetH)
    IN  [sx2 |-> srcW - cropWidth, sy2 |-> srcH - cropHeight,
         dx2 |-> targetW - cropWidth, dy2 |-> targetH - cropHeight,
         cropWidth |-> cropWidth, cropHeight |-> cropHeight]

\* cropFromCenter without its early return.
MutCropAlwaysDraws(img, targetW, targetH) ==
    LET o == CropOffsets2(img.width, img.height, targetW, targetH)
    IN  [width |-> targetW, height |-> targetH,
         data |-> [p \in 0..(targetW * targetH - 1) |->
                     Sample(img, 2 * (p % targetW) - o.dx2 + o.sx2,
                                 2 * (p \div targetW) - o.dy2 + o.sy2)]]

\* cropFromCenter: the buffer returned (the argument itself when the sizes
\* match).
cropFromCenter(img, targetW, targetH) ==
    IF img.width = targetW /\ img.height = targetH THEN img
    ELSE LET o == CropOffsets2(img.width, img.height, targetW, targetH)
         IN  [width |-> targetW, height |-> targetH,
              data |-> [p \in 0..(targetW * targetH - 1) |->
                          Sample(img, 2 * (p % targetW) - o.dx2 + o.sx2,
                                      2 * (p \div targetW) - o.dy2 + o.sy2)]]

\* ctx.getImageData(x, y, w, h) of a canvas holding img, for a rectangle
\* inside it.
GetImageData(img, x, y, w, h) ==
    [width |-> w, height |-> h,
     data |-> [p \in 0..(w * h - 1) |->
                 img.data[(y + (p \div w)) * img.width + x + (p % w)]]]

IndexSizeError == "IndexSizeError: The source width or height is 0."

\* sliceSpriteSheet with the cell size rounded up instead of down; getImageData
\* returns transparent black for the part of a rectangle outside the canvas.
MutSliceCeil(img, rows, cols) ==
    LET cellWidth == (img.width + cols - 1) \div cols
        cellHeight == (img.height + rows - 1) \div rows
    IN  [error |-> Null,
         cells |-> [row \in 1..rows |-> [col \in 1..cols |->
                      [width |-> cellWidth, height |-> cellHeight,
                       data |-> [p \in 0..(cellWidth * cellHeight - 1) |->
                          LET x == (col - 1) * cellWidth + (p % cellWidth)
                              y == (row - 1) * cellHeight + (p \div cellWidth)
                          IN  IF x < img.width /\ y < img.height
                              THEN img.data[y * img.width + x] ELSE Clear]]]]]

\* sliceSpriteSheet: the exception getImageData throws for an empty
\* rectangle, or ImageData[row][col] (rows and columns are 1-based here).
sliceSpriteSheet(img, rows, cols) ==
    LET cellWidth == FloorDiv(img.width, cols)
        cellHeight == FloorDiv(img.height, rows)
    IN  IF cellWidth = 0 \/ cellHeight = 0
        THEN [error |-> IndexSizeError, cells |-> <<>>]
        ELSE [error |-> Null,
              cells |-> [row \in 1..rows |-> [col \in 1..cols |->
                           GetImageData(img, (col - 1) * cellWidth,
                                        (row - 1) * cellHeight,
                                        cellWidth, cellHeight)]]]

\* The defaults of removeMagentaBackground's options argument.
DefaultMagentaOptions ==
    [expansion |-> 0, despill |-> 0, neutralize |-> FALSE, useFloodFill |-> TRUE]

\* getDefaultMagentaCleanupOptions; useFloodFill is left to its default.
getDefaultMagentaCleanupOptions(tolerance) ==
    [expansion |-> 2, despill |-> Max(12, RoundDiv(2 * tolerance, 10)),
     neutralize |-> TRUE, useFloodFill |-> TRUE]

\* createGif up to encode(): the frames handed to the encoder, the caller's
\* frames after the call (cropFromCenter returns its argument when the sizes
\* match, and removeMagentaBackground then writes into it), and the calls
\* made on each frame, in order.
createGif(frames, width, height, tolerance) ==
    IF width # 0 /\ height # 0
    THEN LET processed == [i \in 1..Len(frames) |->
                              removeMagentaBackground(
                                  cropFromCenter(frames[i], width, height),
                                  tolerance, DefaultMagentaOptions)]
         IN  [frames |-> [i \in 1..Len(frames) |->
                            IF frames[i].width = width /\ frames[i].height = height
                            THEN processed[i] ELSE frames[i]],
              encoded |-> processed,
              calls |-> <<"cropFromCenter", "removeMagentaBackground">>]
    ELSE [frames |-> frames, encoded |-> frames, calls |-> <<>>]

\* processImage once the sheet has loaded: slice, store the frames, and
\* generateAllGifs, whose createGif calls run up to encode() before anything
\* else does.
ProcessImage ==
    /\ processedFrames = <<>> /\ sliceError = Null
    /\ LET out == sliceSpriteSheet(sheet, gridRows, gridCols)
           gifs == [row \in 1..Len(out.cells) |->
                       createGif(out.cells[row], outputWidth, outputHeight, GifTolerance)]
       IN  IF out.error # Null
           THEN /\ sliceError' = out.error
                /\ UNCHANGED <<processedFrames, gifFrames, pipeline>>
           ELSE /\ processedFrames' = [row \in 1..Len(out.cells) |-> gifs[row].frames]
                /\ gifFrames' = [row \in 1..Len(out.cells) |-> gifs[row].encoded]
                /\ pipeline' = [pipeline EXCEPT !.gif = gifs[1].calls]
                /\ UNCHANGED sliceError
    /\ UNCHANGED <<sheet, gridRows, gridCols, outputWidth, outputHeight, croppedFrame,
                   previewFrames, infoVars, extraVars, tilingVars, removalVars, blendVars, engineVars>>

\* The computed frameDataUrls, evaluated when the page renders.
RenderPreview ==
    /\ processedFrames # <<>> /\ previewFrames = <<>>
    /\ previewFrames' =
           [row \in 1..Len(processedFrames) |->
               [col \in 1..Len(processedFrames[row]) |->
                   cropFromCenter(
                       removeMagentaBackground(
                           processedFrames[row][col], GifTolerance,
                           getDefaultMagentaCleanupOptions(GifTolerance)),
                       outputWidth, outputHeight)]]
    /\ pipeline' = [pipeline EXCEPT !.preview =
                       <<"cloneImageData", "removeMagentaBackground", "cropFromCenter">>]
    /\ UNCHANGED <<sheet, gridRows, gridCols, outputWidth, outputHeight, processedFrames,
                   sliceError, croppedFrame, gifFrames,
                   infoVars, extraVars, tilingVars, removalVars, blendVars, engineVars>>

DownloadSingleFrame(rowIdx, frameIdx) ==
    /\ rowIdx \in 1..Len(processedFrames)
    /\ frameIdx \in 1..Len(processedFrames[rowIdx])
    /\ croppedFrame' =
           [rowIdx |-> rowIdx, frameIdx |-> frameIdx,
            image |-> cropFromCenter(processedFrames[rowIdx][frameIdx],
                                     outputWidth, outputHeight)]
    /\ UNCHANGED <<sheet, gridRows, gridCols, outputWidth, outputHeight, processedFrames,
                   sliceError, previewFrames, gifFrames, pipeline,
                   infoVars, extraVars, tilingVars, removalVars, blendVars, engineVars>>

\* Sprite sheets: every arrangement of two pixel values on a small canvas.
SheetShapes == {<<1, 1>>, <<2, 1>>, <<2, 2>>, <<3, 2>>, <<2, 3>>}
SheetPairs == {<<Magenta, Ink>>, <<Magenta, Pink>>}

GifInit ==
    /\ \E shape \in SheetShapes, pair \in SheetPairs :
          sheet \in [width : {shape[1]}, height : {shape[2]},
                     data : [0..(shape[1] * shape[2] - 1) -> {pair[1], pair[2]}]]
    /\ gridRows \in 1..MaxGrid
    /\ gridCols \in 1..MaxGrid
    /\ outputWidth \in 1..MaxOutput
    /\ outputHeight \in 1..MaxOutput
    /\ processedFrames = <<>> /\ sliceError = Null /\ croppedFrame = NoCrop
    /\ previewFrames = <<>> /\ gifFrames = <<>>
    /\ pipeline = [preview |-> <<>>, gif |-> <<>>]
    /\ InfoIdle /\ ExtraIdle /\ TilingIdle /\ RemovalIdle /\ BlendIdle /\ EngineIdle

GifNext ==
    \/ ProcessImage
    \/ RenderPreview
    \/ \E rowIdx \in 1..MaxGrid, frameIdx \in 1..MaxGrid : DownloadSingleFrame(rowIdx, frameIdx)

SpecGif == GifInit /\ [][GifNext]_vars

(***************************************************************************)
(* Claims about cropFromCenter and sliceSpriteSheet                        *)
(***************************************************************************)
\* The frame downloadSingleFrame passed to cropFromCenter.
CropSource == processedFrames[croppedFrame.rowIdx][croppedFrame.frameIdx]

\* C13: cropFromCenter of a buffer that already has the target size returns
\* a buffer of the same width, height and pixel values.
C13_CropIdentity ==
    (/\ croppedFrame # NoCrop
     /\ CropSource.width = outputWidth /\ CropSource.height = outputHeight) =>
        croppedFrame.image = CropSource

\* An identity crop of a frame holding a transparent pixel that kept its
\* colour (createGif cleared its alpha in place).
C13_Witness ==
    /\ croppedFrame # NoCrop
    /\ CropSource.width = outputWidth /\ CropSource.height = outputHeight
    /\ croppedFrame.image = CropSource
    /\ \E p \in Pixels(CropSource) :
          CropSource.data[p].a = 0 /\ CropSource.data[p].r = 255

\* C14 as stated: for every source and target size the offsets of
\* cropFromCenter are whole pixels, every output pixel inside the destination
\* window is a copy of the source pixel at the same offset from the source
\* origin, and every output pixel outside the window is fully transparent.
C14_AsStated ==
    croppedFrame # NoCrop =>
        LET src == CropSource
            out == croppedFrame.image
            o == CropOffsets2(src.width, src.height, outputWidth, outputHeight)
        IN  /\ o.sx2 % 2 = 0 /\ o.sy2 % 2 = 0 /\ o.dx2 % 2 = 0 /\ o.dy2 % 2 = 0
            /\ \A p \in Pixels(out) :
                  LET x == (p % out.width) - (o.dx2 \div 2)
                      y == (p \div out.width) - (o.dy2 \div 2)
                  IN  IF x >= 0 /\ x < o.cropWidth /\ y >= 0 /\ y < o.cropHeight
                      THEN out.data[p] =
                               src.data[(y + (o.sy2 \div 2)) * src.width + x + (o.sx2 \div 2)]
                      ELSE out.data[p].a = 0

\* The sheet pixels of the cell in row `row`, column `col` (0-based) of the
\* grid of cellWidth x cellHeight cells with origin (col * cellWidth,
\* row * cellHeight).
CellPixels(row, col, cellWidth, cellHeight) ==
    {p \in Pixels(sheet) :
        /\ (p % sheet.width) >= col * cellWidth
        /\ (p % sheet.width) < (col + 1) * cellWidth
        /\ (p \div sheet.width) >= row * cellHeight
        /\ (p \div sheet.width) < (row + 1) * cellHeight}

SameColour(p, q) == p.r = q.r /\ p.g = q.g /\ p.b = q.b

\* processedFrames is the grid the claim describes.
IsSliceGrid ==
    LET cellWidth == sheet.width \div gridCols
        cellHeight == sheet.height \div gridRows
        cellsOf == {<<row, col>> : row \in 0..(gridRows - 1), col \in 0..(gridCols - 1)}
    IN  /\ Len(processedFrames) = gridRows
        /\ \A row \in 1..gridRows : Len(processedFrames[row]) = gridCols
        /\ \A rc \in cellsOf :
              LET cell == processedFrames[rc[1] + 1][rc[2] + 1]
              IN  /\ cell.width = cellWidth /\ cell.height = cellHeight
                  /\ Cardinality(CellPixels(rc[1], rc[2], cellWidth, cellHeight)) =
                         cellWidth * cellHeight
                  /\ \A p \in Pixels(cell) :
                        SameColour(cell.data[p],
                                   sheet.data[(rc[1] * cellHeight + (p \div cellWidth)) * sheet.width
                                              + rc[2] * cellWidth + (p % cellWidth)])
        /\ \A rc \in cellsOf, other \in cellsOf :
              rc # other =>
                  CellPixels(rc[1], rc[2], cellWidth, cellHeight) \cap
                  CellPixels(other[1], other[2], cellWidth, cellHeight) = {}
        /\ Pixels(sheet) \ UNION {CellPixels(rc[1], rc[2], cellWidth, cellHeight) : rc \in cellsOf}
              = {p \in Pixels(sheet) : \/ (p % sheet.width) >= gridCols * cellWidth
                                       \/ (p \div sheet.width) >= gridRows * cellHeight}

\* processImage has called sliceSpriteSheet.
Sliced == processedFrames # <<>> \/ sliceError # Null

\* C15 as stated: sliceSpriteSheet returns the rows x cols grid of
\* floor(W / cols) x floor(H / rows) cells for every sheet and grid.
C15_AsStated == Sliced => (sliceError = Null /\ IsSliceGrid)

\* C15, amended: when cols <= W and rows <= H, sliceSpriteSheet returns the
\* rows x cols grid of floor(W / cols) x floor(H / rows) cells at origins
\* (col * cellWidth, row * cellHeight), pairwise disjoint, inside the sheet,
\* leaving out exactly the floor-division remainder; otherwise it throws and
\* returns no cell.
C15_SliceGrid ==
    Sliced =>
        IF gridCols <= sheet.width /\ gridRows <= sheet.height
        THEN sliceError = Null /\ IsSliceGrid
        ELSE sliceError = IndexSizeError /\ processedFrames = <<>>

\* A 3 x 2 sheet cut into two columns: the third column is the remainder.
C15_Witness ==
    /\ processedFrames # <<>>
    /\ sheet.width = 3 /\ gridCols = 2 /\ gridRows = 2
    /\ processedFrames[2][2].width = 1
    /\ IsSliceGrid

(***************************************************************************)
(* Claims about the cleanup passes of the background removal               *)
(***************************************************************************)
\* The first call was a flood-fill removal without extra seeds on a buffer
\* none of whose border pixels satisfies the call's background predicate.
NoBorderMatch ==
    /\ callCount = 1
    /\ IF lastCall.fn = "white"
       THEN /\ lastCall.selection = NoSelection
            /\ WhiteIn(source, lastCall.colorDistance)
                   \cap BorderPixels(source.width, source.height) = {}
       ELSE /\ lastCall.options.useFloodFill
            /\ MagentaIn(source, lastCall.tolerance)
                   \cap BorderPixels(source.width, source.height) = {}

\* C16 as stated: with no matching border pixel the buffer is unchanged, RGB
\* and alpha, whatever expansion, despill and neutralize are and whether or
\* not it already holds transparent pixels.
C16_AsStated == NoBorderMatch => imageData = source

\* C16, amended: with no matching border pixel no alpha byte changes, and no
\* RGB byte changes except that a magenta removal with neutralize zeroes the
\* RGB of the pixels that were already transparent.
C16_NoOp ==
    NoBorderMatch =>
        \A p \in Pixels(source) :
            \/ imageData.data[p] = source.data[p]
            \/ /\ lastCall.fn = "magenta" /\ lastCall.options.neutralize
               /\ source.data[p].a = 0
               /\ imageData.data[p] = [r |-> 0, g |-> 0, b |-> 0, a |-> 0]

\* A magenta pixel enclosed by spill-coloured opaque pixels, removal with
\* expansion, despill and neutralize: nothing changed.
C16_Witness ==
    /\ NoBorderMatch /\ lastCall.fn = "magenta"
    /\ lastCall.options.expansion > 0 /\ lastCall.options.despill > 0
    /\ lastCall.options.neutralize
    /\ source.width = 3 /\ source.height = 3
    /\ source.data[4] = Magenta /\ source.data[0] = Pink
    /\ imageData = source

(***************************************************************************)
(* Claims about the per-frame pipeline                                     *)
(***************************************************************************)
\* Call a is made before call b in log.
CalledBefore(log, a, b) ==
    \E i \in 1..Len(log), j \in 1..Len(log) : i < j /\ log[i] = a /\ log[j] = b

\* C17 as stated: on every frame that is encoded, background removal is
\* applied before the center crop, in createGif and in frameDataUrls alike.
C17_AsStated ==
    /\ gifFrames # <<>> =>
           CalledBefore(pipeline.gif, "removeMagentaBackground", "cropFromCenter")
    /\ previewFrames # <<>> =>
           CalledBefore(pipeline.preview, "removeMagentaBackground", "cropFromCenter")

(***************************************************************************)
(* Claims about the despill pass                                           *)
(***************************************************************************)
\* The mask removeMagentaBackground hands to the despill pass for the stored
\* bitmap: the fill (or global) mask after the expansion rounds.
FillAndExpansionMask(call) ==
    LET w == source.width
        h == source.height
        match == {i \in Pixels(source) :
                    isMagenta(source.data[i].r, source.data[i].g, source.data[i].b,
                              call.tolerance)}
        mask == IF call.options.useFloodFill
                THEN MagentaFloodMask(w, h, match)
                ELSE MagentaGlobalMask(w, h, match)
    IN  ExpandMask8(w, h, w * h, mask, call.options.expansion)

\* The pixels the despill pass of that call cleared: visible before, outside
\* the fill and expansion mask, transparent after.
ClearedByDespill(call) ==
    {i \in Pixels(source) :
        /\ source.data[i].a # 0
        /\ i \notin FillAndExpansionMask(call)
        /\ imageData.data[i].a = 0}

\* C20 as the specification states it: in removeMagentaBackground with
\* despill > 0, a pixel is cleared by the despill pass only if it matches the
\* spill heuristic and is 8-adjacent to a pixel of the mask produced by the
\* fill and expansion passes; a pixel whose only masked neighbours were
\* themselves cleared by despill in the same pass is not cleared.
C20_AsStated ==
    (callCount = 1 /\ lastCall.fn = "magenta" /\ lastCall.options.despill > 0) =>
        \A i \in ClearedByDespill(lastCall) :
            /\ isMagentaSpill(source.data[i].r, source.data[i].g, source.data[i].b,
                              lastCall.options.despill)
            /\ HasNeighbourIn(source.width, source.height, i,
                              FillAndExpansionMask(lastCall), dx8, dy8)

(***************************************************************************)
(* Claims about the expansion pass                                         *)
(***************************************************************************)
\* The pixels of the selection box of a white call (none without selection).
SelectionPixels(w, h, sel) ==
    IF sel = NoSelection THEN {}
    ELSE LET scan == SelectionScan(w, h, sel)
         IN  {scan[k][2] * w + scan[k][1] : k \in DOMAIN scan}

\* The mask the fill of `call` leaves for the stored bitmap, by connectivity:
\* white pixels joined to a white border or selection pixel; magenta pixels
\* joined to a magenta border pixel, or all of them in global mode.
PostFillMask(call) ==
    LET w == source.width
        h == source.height
    IN  IF call.fn = "white"
        THEN LET white == WhiteIn(source, call.colorDistance)
             IN  Closure4(w, h, white,
                          white \cap (BorderPixels(w, h)
                                      \cup SelectionPixels(w, h, call.selection)))
        ELSE LET magenta == MagentaIn(source, call.tolerance)
             IN  IF call.options.useFloodFill
                 THEN BorderConnected(w, h, magenta)
                 ELSE magenta

Manhattan(w, i, j) == Abs((i % w) - (j % w)) + Abs((i \div w) - (j \div w))
Chebyshev(w, i, j) == Max(Abs((i % w) - (j % w)), Abs((i \div w) - (j \div w)))

\* The pixels within distance k of the post-fill mask, in the metric of the
\* function called.
WithinExpansion(call) ==
    LET mask == PostFillMask(call)
        w == source.width
    IN  {i \in Pixels(source) :
            \E j \in mask :
                IF call.fn = "white"
                THEN Manhattan(w, i, j) <= call.expansion
                ELSE Chebyshev(w, i, j) <= call.options.expansion}

\* The state follows a first call whose last pass was the expansion pass.
AfterExpansionPass ==
    /\ callCount = 1
    /\ lastCall.fn = "magenta" => lastCall.options.despill = 0

\* C21: after the expansion pass with expansion = k the masked pixels are
\* exactly the pixels within distance k of the post-fill mask (Manhattan
\* distance in removeWhiteBackground, Chebyshev distance in
\* removeMagentaBackground), whether or not they satisfy the colour predicate:
\* each of them has alpha 0, every pixel farther away keeps the alpha it came
\* with, and an empty mask stays empty.
C21_ExpansionByDistance ==
    AfterExpansionPass =>
        LET ball == WithinExpansion(lastCall)
        IN  /\ \A i \in Pixels(source) :
                  IF i \in ball
                  THEN imageData.data[i].a = 0
                  ELSE imageData.data[i].a = source.data[i].a
            /\ PostFillMask(lastCall) = {} => AlphaOf(imageData) = AlphaOf(source)

\* A magenta corner of a 3x3 buffer grown by one round: the diagonal
\* neighbour, no magenta itself, is cleared; the far corner is not.
C21_Witness ==
    /\ FirstCall("magenta")
    /\ lastCall.options.expansion = 1 /\ lastCall.options.despill = 0
    /\ source.width = 3 /\ source.height = 3
    /\ PostFillMask(lastCall) = {0}
    /\ source.data[4] = Pink
    /\ imageData.data[4].a = 0
    /\ imageData.data[8].a = 255

(***************************************************************************)
(* 7. White removal with eraser strokes                                    *)
(*    (removeWhiteBackground and eraseWhiteInStrokes of the eraser page)   *)
(*                                                                         *)
(* The calls are synchronous loops; the model takes one step per pass of   *)
(* the point loop, of the interpolation loop and of the queue loop, so a   *)
(* call that returns is a behaviour that reaches erPc = "done".            *)
(***************************************************************************)
\* The value of s from which s++ no longer changes s (2^53 in the source's
\* double arithmetic).
MaxLoopCount == 3

EraserColorDistance == 30

\* Math.round((percent / 100) * size)
PercentToPixel(percent, size) == RoundDiv(percent * size, 100)

\* Math.round((stroke.radius / 100) * Math.min(width, height))
EraserRadius(stroke, w, h) == PercentToPixel(stroke.radius, Min(w, h))

\* The pixels the dy/dx loops around (cx, cy) reach: inside the circle of
\* radius r and inside the grid, in loop order.
StampCands(w, h, cx, cy, r) ==
    LET side == 2 * r + 1
        all == [k \in 1..(side * side) |->
                   <<((k - 1) % side) - r, ((k - 1) \div side) - r>>]
        inCircle == SelectSeq(all, LAMBDA d : d[1] * d[1] + d[2] * d[2] <= r * r)
        moved == [k \in DOMAIN inCircle |-> <<cx + inCircle[k][1], cy + inCircle[k][2]>>]
    IN  SelectSeq(moved, LAMBDA c : InGrid(w, h, c[1], c[2]))

\* steps = Math.max(1, Math.ceil(dist / (eraserRadius / 2))): with radius 0 the
\* quotient is NaN for dist = 0 (Math.max gives NaN) and Infinity otherwise.
\* d2 is the squared distance; ceil(2 * sqrt(d2) / r) is the least n with
\* n * n * r * r >= 4 * d2.
InterpSteps(d2, r) ==
    IF r = 0
    THEN IF d2 = 0 THEN [kind |-> "nan", n |-> 0] ELSE [kind |-> "infinite", n |-> 0]
    ELSE [kind |-> "finite",
          n |-> Max(1, CHOOSE n \in 0..(4 * d2) :
                          /\ n * n * r * r >= 4 * d2
                          /\ \A m \in 0..(n - 1) : m * m * r * r < 4 * d2)]

\* s < steps
LoopRuns(s, steps) ==
    CASE steps.kind = "finite"   -> s < steps.n
      [] steps.kind = "infinite" -> TRUE
      [] steps.kind = "nan"      -> FALSE

\* s++
Increment(s, steps) ==
    IF steps.kind = "infinite" /\ s >= MaxLoopCount THEN s ELSE s + 1

\* Math.round(center + (next - center) * (s / steps)); s / Infinity is 0.
Interpolate(center, next, s, steps) ==
    IF steps.kind = "finite"
    THEN RoundDiv(center * steps.n + (next - center) * s, steps.n)
    ELSE center

ErWidth == erImage.width
ErHeight == erImage.height
ErStrokeNow == erCall.strokes[erStroke]
ErCentre(i) ==
    <<PercentToPixel(ErStrokeNow.points[i].x, ErWidth),
      PercentToPixel(ErStrokeNow.points[i].y, ErHeight)>>
ErWhite == WhiteIn(erImage, EraserColorDistance)

\* The effect of the dy/dx loops around (cx, cy): removeWhiteBackground seeds
\* the unvisited white pixels, eraseWhiteInStrokes clears and records them.
Stamp(cx, cy) ==
    LET cands == StampCands(ErWidth, ErHeight, cx, cy,
                            EraserRadius(ErStrokeNow, ErWidth, ErHeight))
    IN  IF erCall.fn = "removeWhiteBackground"
        THEN LET st == PushSeeds(cands, ErWidth, ErWhite,
                                 [queue |-> erQueue, visited |-> erVisited])
             IN  /\ erQueue' = st.queue
                 /\ erVisited' = st.visited
                 /\ erImage' = erImage
        ELSE LET hit == {cands[k][2] * ErWidth + cands[k][1] : k \in DOMAIN cands}
                            \cap ErWhite
             IN  /\ erImage' = [erImage EXCEPT !.data = ClearAlpha(erImage.data, hit)]
                 /\ erVisited' = erVisited \cup hit
                 /\ erQueue' = erQueue

\* The first stroke from index k on that has a point, Len + 1 if none.
RECURSIVE SeekStroke(_, _)
SeekStroke(strokes, k) ==
    IF k > Len(strokes) THEN k
    ELSE IF Len(strokes[k].points) > 0 THEN k
    ELSE SeekStroke(strokes, k + 1)

\* Where the loops stand once the stroke loop is at index k.
EnterStroke(strokes, k) ==
    LET to == SeekStroke(strokes, k)
    IN  /\ erStroke' = to
        /\ erPoint' = 1
        /\ erPc' = IF to <= Len(strokes) THEN "point" ELSE "flood"

OtherVars == <<tilingVars, removalVars, blendVars, engineVars, infoVars, gifVars,
               tempVars, listVars, lineVars>>

\* The call is entered; removeWhiteBackground seeds the queue from the edges.
EraserCall(fn, strokes, expansion) ==
    /\ erPc = "idle"
    /\ erCall' = [fn |-> fn, strokes |-> strokes, expansion |-> expansion]
    /\ LET st == IF fn = "removeWhiteBackground"
                 THEN WhiteEdgeSeeds(ErWidth, ErHeight, ErWhite)
                 ELSE [queue |-> <<>>, visited |-> {}]
       IN  erQueue' = st.queue /\ erVisited' = st.visited
    /\ EnterStroke(strokes, 1)
    /\ UNCHANGED <<erImage, erHead, erS, erSteps, OtherVars>>

\* One pass of the point loop: the stamp at the point, then either the
\* interpolation loop towards the next point is set up or the stroke ends.
EraserPoint ==
    /\ erPc = "point"
    /\ LET c == ErCentre(erPoint)
       IN  /\ Stamp(c[1], c[2])
           /\ IF erPoint < Len(ErStrokeNow.points)
              THEN LET nxt == ErCentre(erPoint + 1)
                       d2 == (nxt[1] - c[1]) * (nxt[1] - c[1])
                                + (nxt[2] - c[2]) * (nxt[2] - c[2])
                   IN  /\ erSteps' = InterpSteps(d2, EraserRadius(ErStrokeNow, ErWidth, ErHeight))
                       /\ erS' = 1
                       /\ erPc' = "interp"
                       /\ UNCHANGED <<erStroke, erPoint>>
              ELSE /\ EnterStroke(erCall.strokes, erStroke + 1)
                   /\ UNCHANGED <<erS, erSteps>>
    /\ UNCHANGED <<erCall, erHead, OtherVars>>

\* One test of `s < steps`: a pass of the interpolation loop, or its exit to
\* the next point.
EraserInterp ==
    /\ erPc = "interp"
    /\ IF LoopRuns(erS, erSteps)
       THEN LET c == ErCentre(erPoint)
                nxt == ErCentre(erPoint + 1)
            IN  /\ Stamp(Interpolate(c[1], nxt[1], erS, erSteps),
                         Interpolate(c[2], nxt[2], erS, erSteps))
                /\ erS' = Increment(erS, erSteps)
                /\ UNCHANGED <<erPc, erPoint, erSteps>>
       ELSE /\ erPc' = "point"
            /\ erPoint' = erPoint + 1
            /\ UNCHANGED <<erImage, erVisited, erQueue, erS, erSteps>>
    /\ UNCHANGED <<erCall, erHead, erStroke, OtherVars>>

\* One pass of the queue loop of removeWhiteBackground.
EraserFlood ==
    /\ erPc = "flood" /\ erCall.fn = "removeWhiteBackground"
    /\ erHead <= Len(erQueue)
    /\ LET c == erQueue[erHead]
           st == PushSeeds(NeighbourCands(ErWidth, ErHeight, c[1], c[2]), ErWidth, ErWhite,
                           [queue |-> erQueue, visited |-> erVisited])
       IN  /\ erImage' = [erImage EXCEPT !.data[c[2] * ErWidth + c[1]].a = 0]
           /\ erQueue' = st.queue
           /\ erVisited' = st.visited
    /\ erHead' = erHead + 1
    /\ UNCHANGED <<erCall, erPc, erStroke, erPoint, erS, erSteps, OtherVars>>

\* The expansion rounds, after which the call returns.
EraserExpand ==
    /\ erPc = "flood"
    /\ erCall.fn = "removeWhiteBackground" => erHead > Len(erQueue)
    /\ erImage' = [erImage EXCEPT !.data =
                      ExpandWhite(ErWidth, ErHeight, erImage.data, erVisited,
                                  erCall.expansion)]
    /\ erPc' = "done"
    /\ UNCHANGED <<erCall, erVisited, erQueue, erHead, erStroke, erPoint, erS, erSteps,
                   OtherVars>>

\* Buffer shapes and stroke lists of the eraser model.  Radius 10 rounds to 0
\* pixels on every shape, radius 50 to 1.
EraserShapes == {<<1, 1>>, <<2, 1>>, <<2, 2>>}
TopLeft == [x |-> 0, y |-> 0]
Middle == [x |-> 50, y |-> 50]
BottomRight == [x |-> 100, y |-> 100]
StrokeLists ==
    { <<>>,
      <<[points |-> <<>>, radius |-> 50]>>,
      <<[points |-> <<Middle>>, radius |-> 10]>>,
      <<[points |-> <<Middle, Middle>>, radius |-> 10]>>,
      <<[points |-> <<TopLeft, BottomRight>>, radius |-> 10]>>,
      <<[points |-> <<TopLeft, BottomRight>>, radius |-> 50]>>,
      <<[points |-> <<BottomRight, Middle, TopLeft>>, radius |-> 50]>>,
      <<[points |-> <<Middle>>, radius |-> 50], [points |-> <<TopLeft, Middle>>, radius |-> 50]>> }
EraserFns == {"removeWhiteBackground", "eraseWhiteInStrokes"}

EraserInit ==
    /\ \E shape \in EraserShapes :
          erImage \in [width : {shape[1]}, height : {shape[2]},
                       data : [0..(shape[1] * shape[2] - 1) -> {White, Ink}]]
    /\ erCall = NoCall /\ erPc = "idle"
    /\ erVisited = {} /\ erQueue = <<>> /\ erHead = 1
    /\ erStroke = 0 /\ erPoint = 0 /\ erS = 0 /\ erSteps = NoSteps
    /\ TilingIdle /\ RemovalIdle /\ BlendIdle /\ EngineIdle /\ InfoIdle /\ GifIdle
    /\ TempIdle /\ ListIdle /\ LineIdle

EraserNext ==
    \/ \E fn \in EraserFns, strokes \in StrokeLists, e \in 0..MaxExpansion :
          EraserCall(fn, strokes, e)
    \/ EraserPoint
    \/ EraserInterp
    \/ EraserFlood
    \/ EraserExpand

SpecEraser == EraserInit /\ [][EraserNext]_vars

\* The loops are synchronous code on one thread: an enabled step is taken.
SpecEraserFair == SpecEraser /\ WF_vars(EraserNext)

\* C22 as the specification states it: every call of removeWhiteBackground and
\* eraseWhiteInStrokes finishes, for every buffer and every list of eraser
\* strokes (any number of points, any radius including radii that round to 0
\* pixels, consecutive points equal or distinct).
C22_AsStated == <>(erPc = "done")

(***************************************************************************)
(* Claims about createGif and the preview                                  *)
(***************************************************************************)
\* The frames as sliceSpriteSheet returned them, before createGif ran.
FramesBeforeGif == sliceSpriteSheet(sheet, gridRows, gridCols).cells

\* C24 as the specification states it: createGif does not modify the
\* ImageData frames passed to it; for every frame list and every width/height
\* option, also a target size equal to the frame size, every byte of every
\* input frame is the same after createGif as before.
C24_AsStated ==
    processedFrames # <<>> =>
        \A row \in DOMAIN processedFrames :
            \A col \in DOMAIN processedFrames[row] :
                processedFrames[row][col] = FramesBeforeGif[row][col]

\* C25 as the specification states it: for the same stored frame, tolerance
\* and output size, the pixels of the preview frame computed by frameDataUrls
\* are identical to the pixels of the frame createGif hands to the encoder.
C25_AsStated ==
    (previewFrames # <<>> /\ gifFrames # <<>>) =>
        \A row \in DOMAIN previewFrames :
            \A col \in DOMAIN previewFrames[row] :
                previewFrames[row][col] = gifFrames[row][col]

(***************************************************************************)
(* Claims about the channels a removal call writes                         *)
(***************************************************************************)
SameRGB(p, q) == p.r = q.r /\ p.g = q.g /\ p.b = q.b
BlackRGB(p) == p.r = 0 /\ p.g = 0 /\ p.b = 0

\* C26: after any background-removal call each pixel's alpha is its input
\* alpha or 0; removeWhiteBackground and removeMagentaBackground with
\* neutralize = false change no R, G or B byte; removeMagentaBackground with
\* neutralize = true leaves every pixel whose alpha is 0 after the call with
\* R = G = B = 0 and changes the RGB of no pixel whose alpha is non-zero after
\* the call.
C26_ChannelFrame ==
    [][(callCount' = callCount + 1) =>
          \A i \in Pixels(imageData) :
              LET before == imageData.data[i]
                  after == imageData'.data[i]
              IN  /\ after.a \in {before.a, 0}
                  /\ IF lastCall'.fn = "magenta" /\ lastCall'.options.neutralize
                     THEN IF after.a = 0 THEN BlackRGB(after) ELSE SameRGB(after, before)
                     ELSE SameRGB(after, before)]_vars

\* A neutralizing magenta call that blackened a pixel it cleared and one that
\* was transparent before, and left a visible pixel with its colour.
C26_Witness ==
    /\ FirstCall("magenta") /\ lastCall.options.neutralize
    /\ \E i, j, k \in Pixels(source) :
          /\ source.data[i] = Magenta /\ imageData.data[i].a = 0 /\ BlackRGB(imageData.data[i])
          /\ source.data[j] = Veil /\ BlackRGB(imageData.data[j])
          /\ imageData.data[k].a = 255 /\ imageData.data[k] = source.data[k]

(***************************************************************************)
(* 8. The temp folder (composables/tempFolder.ts)                          *)
(***************************************************************************)
\* generateId is called at most this many times.
MaxTempIds == 5

\* Data URLs of the files offered to the folder.
TempSrcs == {"data:a", "data:b"}

\* The argument lists of addFiles: up to two files, equal or not.
TempBatches ==
    {<<>>} \cup {<<a>> : a \in TempSrcs} \cup {<<a, b>> : a \in TempSrcs, b \in TempSrcs}

HasSrc(fs, src) == \E i \in DOMAIN fs : fs[i].src = src

\* files.value.unshift({...file, id: generateId()}) unless a file has the src.
addFile(fs, nextId, src) ==
    IF HasSrc(fs, src) THEN [files |-> fs, nextId |-> nextId]
    ELSE [files |-> <<[id |-> nextId, src |-> src]>> \o fs, nextId |-> nextId + 1]

\* newFiles.filter(f => !existingSrcs.has(f.src)), existingSrcs taken before.
UniqueFiles(fs, batch) == SelectSeq(batch, LAMBDA src : ~HasSrc(fs, src))

addFiles(fs, nextId, batch) ==
    LET uniqueFiles == UniqueFiles(fs, batch)
        items == [k \in DOMAIN uniqueFiles |->
                     [id |-> nextId + k - 1, src |-> uniqueFiles[k]]]
    IN  IF Len(uniqueFiles) = 0 THEN [files |-> fs, nextId |-> nextId]
        ELSE [files |-> items \o fs, nextId |-> nextId + Len(uniqueFiles)]

removeFile(fs, id) == SelectSeq(fs, LAMBDA f : f.id # id)

TempFrame == <<tilingVars, removalVars, blendVars, engineVars, infoVars, gifVars,
               eraserVars, listVars, lineVars>>

AddFile(src) ==
    /\ tmpNextId < MaxTempIds
    /\ LET out == addFile(tmpFiles, tmpNextId, src)
       IN  tmpFiles' = out.files /\ tmpNextId' = out.nextId
    /\ UNCHANGED TempFrame

AddFiles(batch) ==
    /\ tmpNextId + Len(batch) <= MaxTempIds
    /\ LET out == addFiles(tmpFiles, tmpNextId, batch)
       IN  tmpFiles' = out.files /\ tmpNextId' = out.nextId
    /\ UNCHANGED TempFrame

RemoveFile(id) ==
    /\ tmpFiles' = removeFile(tmpFiles, id)
    /\ UNCHANGED <<tmpNextId, TempFrame>>

ClearAll ==
    /\ tmpFiles' = <<>>
    /\ UNCHANGED <<tmpNextId, TempFrame>>

TempInit ==
    /\ tmpFiles = <<>> /\ tmpNextId = 0
    /\ TilingIdle /\ RemovalIdle /\ BlendIdle /\ EngineIdle /\ InfoIdle /\ GifIdle
    /\ EraserIdle /\ ListIdle /\ LineIdle

TempNext ==
    \/ \E src \in TempSrcs : AddFile(src)
    \/ \E batch \in TempBatches : AddFiles(batch)
    \/ \E id \in 0..MaxTempIds : RemoveFile(id)
    \/ ClearAll

SpecTemp == TempInit /\ [][TempNext]_vars

\* C28 as the specification states it: after any sequence of addFile,
\* addFiles, removeFile and clearAll no two files in the temp folder have the
\* same src, also when one addFiles batch contains several entries with the
\* same src.
C28_AsStated ==
    \A i, j \in DOMAIN tmpFiles : i # j => tmpFiles[i].src # tmpFiles[j].src

(***************************************************************************)
(* 9. The image list (composables/image.ts)                                *)
(***************************************************************************)
\* generateId is called at most this many times.
MaxListIds == 3

\* Data URLs of the uploaded and of the processed images.
ListSrcs == {"data:a", "data:b"}

\* The argument lists of addImages: up to two files.
ListBatches ==
    {<<>>} \cup {<<a>> : a \in ListSrcs} \cup {<<a, b>> : a \in ListSrcs, b \in ListSrcs}

\* The ids a caller may pass: every id handed out so far and one never issued.
UnknownId == MaxListIds
ListIds == 0..UnknownId

\* items.value.findIndex(i => i.id === id), 0 for the code's -1.
FindIndex(its, id) ==
    IF \E i \in DOMAIN its : its[i].id = id
    THEN CHOOSE i \in DOMAIN its : its[i].id = id /\ \A j \in 1..(i - 1) : its[j].id # id
    ELSE 0

\* items.value.splice(index, 1)
Splice(its, index) ==
    [k \in 1..(Len(its) - 1) |-> IF k < index THEN its[k] ELSE its[k + 1]]

\* currentItem: items.value[currentIndex.value] || null (<<>> for null);
\* listIndex is the code's zero-based index.
currentItem(its, index) ==
    IF index + 1 \in DOMAIN its THEN <<its[index + 1]>> ELSE <<>>

addImages(its, index, nextId, files) ==
    LET newItems == [k \in DOMAIN files |->
                        [id |-> nextId + k - 1, originalSrc |-> files[k],
                         processedSrc |-> files[k]]]
        pushed == its \o newItems
    IN  [items |-> pushed,
         index |-> IF Len(pushed) = Len(newItems) THEN 0 ELSE index,
         nextId |-> nextId + Len(files)]

updateItem(its, id, src) ==
    LET index == FindIndex(its, id)
    IN  IF index # 0
        THEN [its EXCEPT ![index] = [its[index] EXCEPT !.processedSrc = src]]
        ELSE its

\* removeImage that leaves currentIndex alone after the splice.
MutRemoveNoClamp(its, index, id) ==
    LET found == FindIndex(its, id)
    IN  IF found # 0 THEN [items |-> Splice(its, found), index |-> index]
        ELSE [items |-> its, index |-> index]

removeImage(its, index, id) ==
    LET found == FindIndex(its, id)
    IN  IF found # 0
        THEN LET spliced == Splice(its, found)
             IN  [items |-> spliced,
                  index |-> IF index >= Len(spliced)
                            THEN (IF Len(spliced) - 1 > 0 THEN Len(spliced) - 1 ELSE 0)
                            ELSE index]
        ELSE [items |-> its, index |-> index]

resetToOriginal(its, id) ==
    LET index == FindIndex(its, id)
    IN  IF index = 0 THEN its ELSE updateItem(its, id, its[index].originalSrc)

ListFrame == <<tilingVars, removalVars, blendVars, engineVars, infoVars, gifVars,
               eraserVars, tempVars, lineVars>>

Known(id) == FindIndex(listItems, id) # 0

AddImages(files) ==
    /\ listNextId + Len(files) <= MaxListIds
    /\ LET out == addImages(listItems, listIndex, listNextId, files)
       IN  /\ listItems' = out.items
           /\ listIndex' = out.index
           /\ listNextId' = out.nextId
    /\ listOp' = [op |-> "addImages", id |-> listNextId, known |-> FALSE]
    /\ UNCHANGED ListFrame

UpdateItem(id, src) ==
    /\ listItems' = updateItem(listItems, id, src)
    /\ listOp' = [op |-> "updateItem", id |-> id, known |-> Known(id)]
    /\ UNCHANGED <<listIndex, listNextId, ListFrame>>

RemoveImage(id) ==
    /\ LET out == removeImage(listItems, listIndex, id)
       IN  listItems' = out.items /\ listIndex' = out.index
    /\ listOp' = [op |-> "removeImage", id |-> id, known |-> Known(id)]
    /\ UNCHANGED <<listNextId, ListFrame>>

ClearImages ==
    /\ listItems' = <<>>
    /\ listIndex' = 0
    /\ listOp' = [op |-> "clearImages", id |-> 0, known |-> FALSE]
    /\ UNCHANGED <<listNextId, ListFrame>>

ResetToOriginal(id) ==
    /\ listItems' = resetToOriginal(listItems, id)
    /\ listOp' = [op |-> "resetToOriginal", id |-> id, known |-> Known(id)]
    /\ UNCHANGED <<listIndex, listNextId, ListFrame>>

\* The thumbnail strip: @click="currentIndex = idx", idx an index of items.
SelectThumbnail(idx) ==
    /\ idx + 1 \in DOMAIN listItems
    /\ listIndex' = idx
    /\ listOp' = [op |-> "select", id |-> listItems[idx + 1].id, known |-> TRUE]
    /\ UNCHANGED <<listItems, listNextId, ListFrame>>

ListInit ==
    /\ listItems = <<>> /\ listIndex = 0 /\ listNextId = 0 /\ listOp = NoListOp
    /\ TilingIdle /\ RemovalIdle /\ BlendIdle /\ EngineIdle /\ InfoIdle /\ GifIdle
    /\ EraserIdle /\ TempIdle /\ LineIdle

ListNext ==
    \/ \E files \in ListBatches : AddImages(files)
    \/ \E id \in ListIds, src \in ListSrcs : UpdateItem(id, src)
    \/ \E id \in ListIds : RemoveImage(id)
    \/ ClearImages
    \/ \E id \in ListIds : ResetToOriginal(id)
    \/ \E idx \in 0..(MaxListIds - 1) : SelectThumbnail(idx)

SpecList == ListInit /\ [][ListNext]_vars

IndexInRange ==
    /\ Len(listItems) = 0 => listIndex = 0
    /\ Len(listItems) > 0 => listIndex >= 0 /\ listIndex < Len(listItems)
    /\ currentItem(listItems, listIndex) = <<>> <=> Len(listItems) = 0

UnknownIdNoOp ==
    (listOp'.op \in {"removeImage", "updateItem"} /\ ~listOp'.known)
        => listItems' = listItems /\ listIndex' = listIndex

\* C29: after any sequence of addImages, removeImage, clearImages, updateItem,
\* resetToOriginal (and thumbnail clicks) currentIndex is 0 when the list is
\* empty and otherwise 0 <= currentIndex < items.length, so currentItem is
\* null only when the list is empty; removeImage and updateItem with an
\* unknown id change nothing.
C29_IndexInvariant == []IndexInRange /\ [][UnknownIdNoOp]_vars

\* The selected image was the last of several and has just been removed: the
\* index was pulled back onto the new last item.
C29_Witness ==
    /\ listOp.op = "removeImage" /\ listOp.known
    /\ Len(listItems) >= 1
    /\ listIndex = Len(listItems) - 1
    /\ \A i \in DOMAIN listItems : listItems[i].id < listOp.id

\* An unknown id was passed to removeImage while the list was not empty.
C29_WitnessUnknown ==
    /\ listOp.op \in {"removeImage", "updateItem"} /\ ~listOp.known
    /\ Len(listItems) > 0

(***************************************************************************)
(* 10. Editing the split lines (components/ImageCanvas.vue, pages/index.vue)*)
(***************************************************************************)
\* generateId is called at most this many times.
MaxLineIds == 2

\* pages/index.vue holds two pages around ImageCanvas: "plain" passes
\* v-model:lines only, so selectedLineId lives in the canvas alone; "bound"
\* also passes v-model:selected-line-id and clears it itself.
PageVariants == {"plain", "bound"}

\* xPercent / yPercent of getMousePosition.
LinePointerPercents == {1, 30, 120}

\* Where the pointer is during a move: <<xPercent, yPercent>>.
LinePointerPositions == {<<1, 30>>, <<30, 120>>, <<120, 1>>}

\* displaySize in handleKeyDown: <<width, height>>.
DisplaySizes == {<<2, 2>>}

\* quickHLines / quickVLines when the button is pressed.
QuickCounts == {0, 1}

Keys == {"ArrowUp", "ArrowDown", "ArrowLeft", "ArrowRight", "Delete", "Backspace",
         "Escape"}

LineIdsOf(ls) == {ls[i].id : i \in DOMAIN ls}

\* lines.value.filter(l => l.id !== id)
WithoutLine(ls, id) == SelectSeq(ls, LAMBDA l : l.id # id)

\* lines.value.find(l => l.id === id), as an index; 0 when there is none.
FindLine(ls, id) ==
    IF id \in LineIdsOf(ls) THEN CHOOSE i \in DOMAIN ls : ls[i].id = id ELSE 0

\* handleMouseUp: the line under creation is added, and selected, when its
\* position is strictly between 1 and 99.
handleMouseUp(ls, sel, creating, nextId) ==
    IF creating # <<>> /\ creating[1].position > 1 /\ creating[1].position < 99
    THEN [lines |-> Append(ls, [id |-> nextId, type |-> creating[1].type,
                                position |-> creating[1].position]),
          selected |-> nextId, nextId |-> nextId + 1]
    ELSE [lines |-> ls, selected |-> sel, nextId |-> nextId]

\* The arrow keys of handleKeyDown: one display pixel up/down for an h-line,
\* left/right for a v-line.
Nudge(line, key, width, height) ==
    LET pixelStepH == 100 \div height
        pixelStepV == 100 \div width
    IN  IF line.type = "h"
        THEN CASE key = "ArrowUp"   -> clamp(line.position - pixelStepH, 0, 100)
               [] key = "ArrowDown" -> clamp(line.position + pixelStepH, 0, 100)
               [] OTHER             -> line.position
        ELSE CASE key = "ArrowLeft"  -> clamp(line.position - pixelStepV, 0, 100)
               [] key = "ArrowRight" -> clamp(line.position + pixelStepV, 0, 100)
               [] OTHER              -> line.position

\* handleKeyDown with a selected line that is in the list.
handleKeyDown(ls, sel, key, width, height) ==
    LET i == FindLine(ls, sel)
        moved == [ls EXCEPT ![i].position = Nudge(ls[i], key, width, height)]
    IN  IF sel = 0 \/ i = 0 THEN [lines |-> ls, selected |-> sel]
        ELSE IF key \in {"Delete", "Backspace"}
             THEN [lines |-> WithoutLine(moved, sel), selected |-> 0]
        ELSE IF key = "Escape" THEN [lines |-> moved, selected |-> 0]
        ELSE [lines |-> moved, selected |-> sel]

\* applyQuickSplit: hCount h-lines and vCount v-lines at equal distances.
QuickLines(hCount, vCount, nextId) ==
    [k \in 1..(hCount + vCount) |->
        IF k <= hCount
        THEN [id |-> nextId + k - 1, type |-> "h",
              position |-> (k * 100) \div (hCount + 1)]
        ELSE [id |-> nextId + k - 1, type |-> "v",
              position |-> ((k - hCount) * 100) \div (vCount + 1)]]

\* removeLine that leaves the selection as it is.
MutRemoveKeepsSelection(variant, ls, sel, id) ==
    [lines |-> WithoutLine(ls, id), selected |-> sel]

\* removeLine of the page: the plain page filters the list; the bound page
\* also clears selectedLineId when it names the removed line.
removeLine(variant, ls, sel, id) ==
    [lines |-> WithoutLine(ls, id),
     selected |-> IF variant = "bound" /\ sel = id THEN 0 ELSE sel]

LineFrame == <<tilingVars, removalVars, blendVars, engineVars, infoVars, gifVars,
               eraserVars, tempVars, listVars>>

\* handleMouseDown on a line: the line is selected and dragged.
MouseDownOnLine(i) ==
    /\ i \in DOMAIN splitLines
    /\ draggingLineId' = splitLines[i].id
    /\ selectedLineId' = splitLines[i].id
    /\ UNCHANGED <<pageVariant, splitLines, creatingLine, lineNextId, LineFrame>>

\* handleMouseDown off every line and near an edge: the selection is dropped
\* and a line of the edge's direction is under creation.
MouseDownAtEdge(t, p) ==
    /\ p >= 0 /\ p <= 100
    /\ selectedLineId' = 0
    /\ creatingLine' = <<[type |-> t, position |-> p]>>
    /\ UNCHANGED <<pageVariant, splitLines, draggingLineId, lineNextId, LineFrame>>

\* handleMouseDown off every line and off the edges.
MouseDownElsewhere ==
    /\ selectedLineId' = 0
    /\ UNCHANGED <<pageVariant, splitLines, draggingLineId, creatingLine, lineNextId,
                   LineFrame>>

\* handleMouseMove: the dragged line follows the pointer, clamped; otherwise
\* the line under creation follows it, unclamped.
MouseMove(xPercent, yPercent) ==
    /\ IF draggingLineId # 0
       THEN LET i == FindLine(splitLines, draggingLineId)
            IN  /\ splitLines' =
                      IF i = 0 THEN splitLines
                      ELSE [splitLines EXCEPT ![i].position =
                               clamp(IF splitLines[i].type = "h" THEN yPercent
                                     ELSE xPercent, 0, 100)]
                /\ UNCHANGED creatingLine
       ELSE /\ creatingLine' =
                  IF creatingLine = <<>> THEN <<>>
                  ELSE <<[creatingLine[1] EXCEPT !.position =
                             IF creatingLine[1].type = "h" THEN yPercent
                             ELSE xPercent]>>
            /\ UNCHANGED splitLines
    /\ UNCHANGED <<pageVariant, selectedLineId, draggingLineId, lineNextId, LineFrame>>

\* handleMouseUp, also bound to mouseleave.
MouseUp ==
    /\ LET out == handleMouseUp(splitLines, selectedLineId, creatingLine, lineNextId)
       IN  /\ out.nextId <= MaxLineIds + 1
           /\ splitLines' = out.lines
           /\ selectedLineId' = out.selected
           /\ lineNextId' = out.nextId
    /\ creatingLine' = <<>>
    /\ draggingLineId' = 0
    /\ UNCHANGED <<pageVariant, LineFrame>>

\* handleDoubleClick on a line.
DoubleClick(i) ==
    /\ i \in DOMAIN splitLines
    /\ splitLines' = WithoutLine(splitLines, splitLines[i].id)
    /\ selectedLineId' = IF selectedLineId = splitLines[i].id THEN 0 ELSE selectedLineId
    /\ UNCHANGED <<pageVariant, draggingLineId, creatingLine, lineNextId, LineFrame>>

KeyDown(key, width, height) ==
    /\ LET out == handleKeyDown(splitLines, selectedLineId, key, width, height)
       IN  splitLines' = out.lines /\ selectedLineId' = out.selected
    /\ UNCHANGED <<pageVariant, draggingLineId, creatingLine, lineNextId, LineFrame>>

ApplyQuickSplit(hCount, vCount) ==
    /\ lineNextId + hCount + vCount - 1 <= MaxLineIds
    /\ splitLines' = QuickLines(hCount, vCount, lineNextId)
    /\ lineNextId' = lineNextId + hCount + vCount
    /\ selectedLineId' = IF pageVariant = "bound" THEN 0 ELSE selectedLineId
    /\ UNCHANGED <<pageVariant, draggingLineId, creatingLine, LineFrame>>

\* The delete button of a line in the side list.
RemoveLine(id) ==
    /\ id \in LineIdsOf(splitLines)
    /\ LET out == removeLine(pageVariant, splitLines, selectedLineId, id)
       IN  splitLines' = out.lines /\ selectedLineId' = out.selected
    /\ UNCHANGED <<pageVariant, draggingLineId, creatingLine, lineNextId, LineFrame>>

\* handleLineClick of the bound page: a click on a line in the side list.
HandleLineClick(id) ==
    /\ pageVariant = "bound"
    /\ id \in LineIdsOf(splitLines)
    /\ selectedLineId' = id
    /\ UNCHANGED <<pageVariant, splitLines, draggingLineId, creatingLine, lineNextId,
                   LineFrame>>

\* handleClear / a new upload: the page empties the list; the bound page also
\* clears selectedLineId.
HandleClear ==
    /\ splitLines' = <<>>
    /\ selectedLineId' = IF pageVariant = "bound" THEN 0 ELSE selectedLineId
    /\ UNCHANGED <<pageVariant, draggingLineId, creatingLine, lineNextId, LineFrame>>

LineInit ==
    /\ pageVariant \in PageVariants
    /\ splitLines = <<>> /\ selectedLineId = 0 /\ draggingLineId = 0
    /\ creatingLine = <<>> /\ lineNextId = 1
    /\ TilingIdle /\ RemovalIdle /\ BlendIdle /\ EngineIdle /\ InfoIdle /\ GifIdle
    /\ EraserIdle /\ TempIdle /\ ListIdle

LineNext ==
    \/ \E i \in 1..MaxLineIds : MouseDownOnLine(i)
    \/ \E t \in {"h", "v"}, p \in LinePointerPercents : MouseDownAtEdge(t, p)
    \/ MouseDownElsewhere
    \/ \E pos \in LinePointerPositions : MouseMove(pos[1], pos[2])
    \/ MouseUp
    \/ \E i \in 1..MaxLineIds : DoubleClick(i)
    \/ \E key \in Keys, size \in DisplaySizes : KeyDown(key, size[1], size[2])
    \/ \E hc \in QuickCounts, vc \in QuickCounts : ApplyQuickSplit(hc, vc)
    \/ \E id \in 1..MaxLineIds : RemoveLine(id)
    \/ \E id \in 1..MaxLineIds : HandleLineClick(id)
    \/ HandleClear

SpecLines == LineInit /\ [][LineNext]_vars

PositionsInRange ==
    \A i \in DOMAIN splitLines : splitLines[i].position >= 0 /\ splitLines[i].position <= 100

SelectionValid == selectedLineId = 0 \/ selectedLineId \in LineIdsOf(splitLines)

\* A step of handleMouseUp that adds a line had a release position strictly
\* between 1 and 99.
CreatedInside ==
    (creatingLine # <<>> /\ creatingLine' = <<>> /\ Len(splitLines') = Len(splitLines) + 1)
        => /\ creatingLine[1].position > 1 /\ creatingLine[1].position < 99
           /\ splitLines'[Len(splitLines')].position = creatingLine[1].position

====
